---- MODULE Spec2Model ----
(***************************************************************************)
(* kz-dashboard: the containers service of the API (containers.service.ts) *)
(* as a state machine.  Strings are sequences of one-character strings so  *)
(* that trim(), toLowerCase() and replace(/^\//, '') are computed, not      *)
(* assumed.  The Docker daemon is the environment: every call into it      *)
(* settles with an outcome chosen by the daemon.                           *)
(***************************************************************************)
EXTENDS Integers, Sequences, FiniteSets, TLC

VARIABLES
    env,          \* process.env.PROTECTED_CONTAINERS when the module is loaded
    protectedContainers, \* module constant protectedContainers (a Set)
    ui,           \* React state of the ContainerDashboard component
    svc,          \* what ServicesService works on: services.yml and its containers
    entry,        \* which public entry point this request came through
    pc,           \* position of the request inside the service
    action,       \* BulkAction: "start" | "stop" | "restart"
    input,        \* BulkActionDto of a bulk request
    reqId,        \* id parameter of a single-container request
    inventory,    \* the containers the daemon holds (what listContainers answers)
    allContainers,\* executeBulkAction: const allContainers
    targets,      \* executeBulkAction: const targets / runWithConcurrency: items
    concurrency,  \* runWithConcurrency: parameter concurrency
    cursor,       \* runWithConcurrency: let cursor
    workers,      \* runWithConcurrency: const workers (one async closure each)
    succeeded,    \* executeBulkAction: const succeeded
    failed,       \* executeBulkAction: const failed
    calls,        \* every call issued on the daemon's control socket, in order
    answers,      \* the daemon's answer to each call it has answered, by index into calls
    response      \* what the caller of the service got back

vars == << env, protectedContainers, ui, svc, entry, pc, action, input, reqId,
           inventory, allContainers, targets, concurrency, cursor, workers,
           succeeded, failed, calls, answers, response >>

----------------------------------------------------------------------------
(* Bounds of the model *)

\* longest inventory the daemon answers in a bulk request
MaxInv == 3
\* largest concurrency limit tried on runWithConcurrency besides BULK_CONCURRENCY
MaxK == 2
\* how many more items than the concurrency limit an item list may hold
MaxExtra == 2

----------------------------------------------------------------------------
(* Strings *)

Lower(c) ==
    CASE c = "A" -> "a"
      [] c = "B" -> "b"
      [] c = "C" -> "c"
      [] c = "D" -> "d"
      [] c = "E" -> "e"
      [] c = "K" -> "k"
      [] c = "O" -> "o"
      [] c = "R" -> "r"
      [] c = "W" -> "w"
      [] OTHER -> c

\* String.prototype.toLowerCase
toLowerCase(s) == [i \in 1..Len(s) |-> Lower(s[i])]

IsSpace(c) == c = " "

RECURSIVE trimStart(_)
trimStart(s) ==
    IF s # <<>> /\ IsSpace(Head(s)) THEN trimStart(Tail(s)) ELSE s

RECURSIVE trimEnd(_)
trimEnd(s) ==
    IF s # <<>> /\ IsSpace(s[Len(s)])
    THEN trimEnd(SubSeq(s, 1, Len(s) - 1))
    ELSE s

\* String.prototype.trim
trim(s) == trimEnd(trimStart(s))

\* s.replace(/^\//, ''): one leading slash is removed, no more
stripLeadingSlash(s) ==
    IF s # <<>> /\ Head(s) = "/" THEN Tail(s) ELSE s

\* an optional property of a DTO: absent, or present with a value
None == [has |-> FALSE]
Some(v) == [has |-> TRUE, val |-> v]
\* opt ?? dflt
OrElse(opt, dflt) == IF opt.has THEN opt.val ELSE dflt

\* the elements of a sequence, as new Set(array) holds them
SetOf(seq) == {seq[i] : i \in 1..Len(seq)}

----------------------------------------------------------------------------
(* Configuration *)

DEFAULT_PROTECTED_CONTAINERS ==
    << <<"k","z","-","d","a","s","h","b","o","a","r","d","-","a","p","i">>,
       <<"k","z","-","d","a","s","h","b","o","a","r","d","-","w","e","b">>,
       <<"d","o","c","k","e","r">>,
       <<"c","o","n","t","a","i","n","e","r","d">> >>

\* s.split(sep): the pieces of s between the occurrences of sep
RECURSIVE split(_, _)
split(s, sep) ==
    IF \A i \in 1..Len(s) : s[i] # sep THEN << s >>
    ELSE LET at == CHOOSE i \in 1..Len(s) :
                       s[i] = sep /\ \A j \in 1..(i - 1) : s[j] # sep
         IN  << SubSeq(s, 1, at - 1) >> \o split(SubSeq(s, at + 1, Len(s)), sep)

\* faulty variant: the entries are not trimmed
configuredProtectedContainers_noTrim ==
    IF env.has
    THEN LET entries == split(env.val, ",")
             values == [i \in 1..Len(entries) |-> toLowerCase(entries[i])]
         IN  SelectSeq(values, LAMBDA value : Len(value) > 0)
    ELSE <<>>

\* evaluated when the module is loaded
configuredProtectedContainers ==
    IF env.has
    THEN LET entries == split(env.val, ",")
             values == [i \in 1..Len(entries) |-> toLowerCase(trim(entries[i]))]
         IN  SelectSeq(values, LAMBDA value : Len(value) > 0)
    ELSE <<>>

\* the value const protectedContainers gets when the module is loaded
newProtectedContainers ==
    SetOf(IF Len(configuredProtectedContainers) > 0
          THEN configuredProtectedContainers
          ELSE DEFAULT_PROTECTED_CONTAINERS)

BULK_CONCURRENCY == 5

\* no dashboard is mounted, no services module is loaded
NoDashboard == [kind |-> "none"]
NoServices == [kind |-> "none"]

BulkActions == {"start", "stop", "restart"}

----------------------------------------------------------------------------
(* Pure functions of the service *)

\* container.Names?.[0]?.replace(/^\//, '') ?? container.Id
getContainerName(container) ==
    IF container.Names.has /\ Len(container.Names.val) > 0
    THEN stripLeadingSlash(container.Names.val[1])
    ELSE container.Id

requestIds(in) ==
    SetOf([i \in 1..Len(OrElse(in.ids, <<>>)) |-> trim(OrElse(in.ids, <<>>)[i])])

requestNames(in) ==
    SetOf([i \in 1..Len(OrElse(in.names, <<>>)) |->
              toLowerCase(trim(OrElse(in.names, <<>>)[i]))])

\* faulty variant: a request that names nothing is read as "no filter"
isSelected_emptyMeansAll(container, in) ==
    IF \/ in.includeAll.has /\ in.includeAll.val
       \/ requestIds(in) = {} /\ requestNames(in) = {}
    THEN TRUE
    ELSE \/ container.Id \in requestIds(in)
         \/ toLowerCase(getContainerName(container)) \in requestNames(in)

\* faulty variant: the container's name is compared as it is, not lower-cased
isSelected_caseSensitive(container, in) ==
    IF in.includeAll.has /\ in.includeAll.val
    THEN TRUE
    ELSE \/ container.Id \in requestIds(in)
         \/ getContainerName(container) \in requestNames(in)

\* the predicate of the first filter of resolveBulkTargets
isSelected(container, in) ==
    IF in.includeAll.has /\ in.includeAll.val
    THEN TRUE
    ELSE \/ container.Id \in requestIds(in)
         \/ toLowerCase(getContainerName(container)) \in requestNames(in)

\* faulty variant: the protected-name lookup forgets toLowerCase
isProtected_caseSensitive(container) ==
    getContainerName(container) \in protectedContainers

\* the predicate of the second filter of resolveBulkTargets
isProtected(container) ==
    toLowerCase(getContainerName(container)) \in protectedContainers

\* faulty variant: the matches by id and the matches by name are collected one
\* after the other and concatenated
resolveBulkTargets_additive(all, in) ==
    LET byAll == SelectSeq(all, LAMBDA c : in.includeAll.has /\ in.includeAll.val)
        byId == SelectSeq(all, LAMBDA c :
                   /\ ~(in.includeAll.has /\ in.includeAll.val)
                   /\ c.Id \in requestIds(in))
        byName == SelectSeq(all, LAMBDA c :
                   /\ ~(in.includeAll.has /\ in.includeAll.val)
                   /\ toLowerCase(getContainerName(c)) \in requestNames(in))
    IN  SelectSeq(byAll \o byId \o byName, LAMBDA c : ~isProtected(c))

\* Array.prototype.filter is SelectSeq: it keeps the order of what it keeps
resolveBulkTargets(all, in) ==
    LET selected == SelectSeq(all, LAMBDA c : isSelected(c, in))
    IN  SelectSeq(selected, LAMBDA c : ~isProtected(c))

----------------------------------------------------------------------------
(* The daemon and the requests the model draws from *)

IdA1 == <<"a","1">>
IdB2 == <<"b","2">>
IdC3 == <<"c","3">>
IdDocker == <<"d","o","c","k","e","r">>
IdE5 == <<"e","5">>

\* DockerContainerSummary: Id and the optional Names (Image, State and Status
\* are read by no operation modelled here)
Catalogue ==
    { [Id |-> IdA1, Names |-> Some(<< <<"/","w","e","b">> >>)],
      [Id |-> IdB2, Names |-> Some(<< <<"/","D","b">>, <<"/","a","l","t">> >>)],
      [Id |-> IdC3, Names |-> Some(<< <<"/","D","o","c","k","e","r">> >>)],
      [Id |-> IdDocker, Names |-> None],
      [Id |-> IdE5, Names |-> Some(<< <<"/","/","d","o","c","k","e","r">> >>)] }

RECURSIVE DistinctSeqs(_, _)
\* the sequences of at most n distinct elements of S
DistinctSeqs(S, n) ==
    IF n = 0 THEN { <<>> }
    ELSE { <<>> } \cup
         UNION { { <<x>> \o t : t \in DistinctSeqs(S \ {x}, n - 1) } : x \in S }

\* container ids are unique in what the daemon lists
Inventories == DistinctSeqs(Catalogue, MaxInv)

IdsInputs ==
    { None,
      Some(<< IdA1 >>),
      Some(<< <<" ","a","1"," ">> >>),
      Some(<< <<"A","1">> >>),
      Some(<< IdC3, IdDocker, IdB2, IdB2 >>) }

NamesInputs ==
    { None,
      Some(<< <<"W","E","B">> >>),
      Some(<< <<" ","d","b"," ">> >>),
      Some(<< <<"/","w","e","b">> >>),
      Some(<< <<"d","o","c","k","e","r">>, <<"w","e","b">>, <<"W","e","b">> >>) }

Requests ==
    { [ids |-> i, names |-> n, includeAll |-> None] :
          i \in IdsInputs, n \in NamesInputs }
    \cup
    { [ids |-> None, names |-> None, includeAll |-> Some(b)] : b \in BOOLEAN }
    \cup
    { [ids |-> Some(<< IdA1 >>), names |-> Some(<<>>), includeAll |-> Some(b)] :
          b \in BOOLEAN }
    \cup
    { [ids |-> Some(<<>>), names |-> Some(<<>>), includeAll |-> None],
      [ids |-> Some(<<>>), names |-> None, includeAll |-> Some(FALSE)] }

\* what the daemon answers to a call
Ok == [ok |-> TRUE]
Refused == [ok |-> FALSE, isError |-> TRUE,
            message |-> "connect ECONNREFUSED /var/run/docker.sock"]
NoSuch == [ok |-> FALSE, isError |-> TRUE, message |-> "no such container"]
ConnectionRefused ==
    [ok |-> FALSE, isError |-> TRUE, message |-> "connection refused"]

\* the containers web-1 .. web-4 and the protected kz-dashboard-api
WebId(i) == << "i", "d", "-", ToString(i) >>
WebName(i) == << "w", "e", "b", "-", ToString(i) >>
Web(i) == [Id |-> WebId(i), Names |-> Some(<< << "/" >> \o WebName(i) >>)]
DashboardApi ==
    [Id |-> << "i", "d", "-", "a", "p", "i" >>,
     Names |-> Some(<< << "/" >> \o DEFAULT_PROTECTED_CONTAINERS[1] >>)]
ScenarioInventory == << Web(1), Web(2), DashboardApi, Web(3), Web(4) >>

\* what the daemon may answer to start/stop/restart of container id: the web
\* containers fail with "connection refused", any other with the socket's error
RuntimeOutcomes(id) ==
    IF \E i \in 1..Len(ScenarioInventory) : id = WebId(i)
    THEN {Ok, ConnectionRefused}
    ELSE {Ok, Refused}

\* the runtime calls this call sequence holds that are not yet answered
Outstanding(cs, done, ops) ==
    { i \in 1..Len(cs) : cs[i].op \in ops /\ i \notin done }

InFlight == Cardinality(Outstanding(calls, DOMAIN answers, BulkActions))

----------------------------------------------------------------------------
(* runWithConcurrency and the handler executeBulkAction passes to it *)

\* the locals the workers and the handler share
RunState ==
    [cursor |-> cursor, workers |-> workers, calls |-> calls,
     succeeded |-> succeeded, failed |-> failed]

SetRun(r) ==
    /\ cursor' = r.cursor
    /\ workers' = r.workers
    /\ calls' = r.calls
    /\ succeeded' = r.succeeded
    /\ failed' = r.failed

Min(a, b) == IF a < b THEN a ELSE b

\* the runtime call applyContainerAction issues: start, stop, else restart
applyContainerAction(cs, id, act) ==
    IF act = "start" THEN Append(cs, [op |-> "start", id |-> id])
    ELSE IF act = "stop" THEN Append(cs, [op |-> "stop", id |-> id])
    ELSE Append(cs, [op |-> "restart", id |-> id])

\* the handler up to its await: the runtime call for the target is issued
handlerInvoke(r, w, target, act) ==
    [r EXCEPT !.calls = applyContainerAction(@, target.Id, act),
              !.workers[w] = [st |-> "await", item |-> << target >>,
                              call |-> Len(r.calls) + 1]]

\* faulty variant: succeeded.push sits before the try, so a failed target is
\* pushed to both lists
handlerSettle_pushBoth(r, w, target, outcome) ==
    IF outcome.ok
    THEN [r EXCEPT !.succeeded = Append(@, target.Id),
                   !.workers[w].st = "resume"]
    ELSE [r EXCEPT !.succeeded = Append(@, target.Id),
                   !.failed = Append(@,
                       [id |-> target.Id,
                        name |-> getContainerName(target),
                        error |-> IF outcome.isError THEN outcome.message
                                  ELSE "Unknown error"]),
                   !.workers[w].st = "resume"]

\* faulty variant: a worker leaves its loop after a failed item
handlerSettle_stopOnFailure(r, w, target, outcome) ==
    IF outcome.ok
    THEN [r EXCEPT !.succeeded = Append(@, target.Id),
                   !.workers[w].st = "resume"]
    ELSE [r EXCEPT !.failed = Append(@,
                       [id |-> target.Id,
                        name |-> getContainerName(target),
                        error |-> IF outcome.isError THEN outcome.message
                                  ELSE "Unknown error"]),
                   !.workers[w].st = "done"]

\* faulty variant: no try/catch around the runtime call, its error rejects the
\* worker
handlerSettle_noCatch(r, w, target, outcome) ==
    IF outcome.ok
    THEN [r EXCEPT !.succeeded = Append(@, target.Id),
                   !.workers[w].st = "resume"]
    ELSE [r EXCEPT !.workers[w].st = "rejected"]

\* faulty variant: the message of the error is not kept
handlerSettle_unknownError(r, w, target, outcome) ==
    IF outcome.ok
    THEN [r EXCEPT !.succeeded = Append(@, target.Id),
                   !.workers[w].st = "resume"]
    ELSE [r EXCEPT !.failed = Append(@,
                       [id |-> target.Id,
                        name |-> getContainerName(target),
                        error |-> "Unknown error"]),
                   !.workers[w].st = "resume"]

\* faulty variant: a result is put in front of the earlier ones
handlerSettle_unshift(r, w, target, outcome) ==
    IF outcome.ok
    THEN [r EXCEPT !.succeeded = << target.Id >> \o @,
                   !.workers[w].st = "resume"]
    ELSE [r EXCEPT !.failed = <<
                       [id |-> target.Id,
                        name |-> getContainerName(target),
                        error |-> IF outcome.isError THEN outcome.message
                                  ELSE "Unknown error"] >> \o @,
                   !.workers[w].st = "resume"]

\* the handler after its await: try { succeeded.push } catch { failed.push }
handlerSettle(r, w, target, outcome) ==
    IF outcome.ok
    THEN [r EXCEPT !.succeeded = Append(@, target.Id),
                   !.workers[w].st = "resume"]
    ELSE [r EXCEPT !.failed = Append(@,
                       [id |-> target.Id,
                        name |-> getContainerName(target),
                        error |-> IF outcome.isError THEN outcome.message
                                  ELSE "Unknown error"]),
                   !.workers[w].st = "resume"]

\* one turn of a worker's while loop, up to the await of the handler
workerLoop(items, act, r, w) ==
    IF r.cursor < Len(items)
    THEN handlerInvoke([r EXCEPT !.cursor = @ + 1], w, items[r.cursor + 1], act)
    ELSE [r EXCEPT !.workers[w] = [st |-> "done", item |-> <<>>, call |-> 0]]

RECURSIVE startWorkers(_, _, _, _, _)
\* Array.from runs each worker closure, in order, up to its first await
startWorkers(items, act, r, w, n) ==
    IF w > n THEN r
    ELSE startWorkers(items, act, workerLoop(items, act, r, w), w + 1, n)

\* faulty variant: a single worker whatever the limit is
workerCount_one(items, k) == IF Len(items) > 0 THEN 1 ELSE 0

\* faulty variant: one worker per item, the limit is ignored
workerCount_perItem(items, k) == Len(items)

\* Array.from({ length: Math.min(concurrency, items.length) }, ...): a length
\* that is not positive gives no worker
workerCount(items, k) ==
    IF Min(k, Len(items)) > 0 THEN Min(k, Len(items)) ELSE 0

\* runWithConcurrency up to await Promise.all(workers)
runWithConcurrency(items, k, act, r) ==
    startWorkers(items, act,
        [r EXCEPT !.cursor = 0,
                  !.workers = [w \in 1..workerCount(items, k) |->
                                  [st |-> "new", item |-> <<>>, call |-> 0]]],
        1, workerCount(items, k))

\* faulty variant: Promise.race, over as soon as one worker is
allSettled_race(ws) == \E w \in DOMAIN ws : ws[w].st \in {"done", "rejected"}

\* Promise.all(workers): pending while a worker runs, rejected by a rejected one
allSettled(ws) == \A w \in DOMAIN ws : ws[w].st \in {"done", "rejected"}
anyRejected(ws) == \E w \in DOMAIN ws : ws[w].st = "rejected"

\* faulty variant: no try/catch, a failed listing is raised
listContainerSummaries_noCatch(outcome, inv) ==
    IF outcome.ok THEN [threw |-> FALSE, value |-> inv]
    ELSE [threw |-> TRUE, value |-> <<>>]

\* listContainerSummaries: a failed listing is caught and answered with []
listContainerSummaries(outcome, inv) ==
    IF outcome.ok THEN [threw |-> FALSE, value |-> inv]
    ELSE [threw |-> FALSE, value |-> <<>>]

\* the value executeBulkAction returns
bulkResult(items, ok, ko) ==
    [kind |-> "result", ok |-> TRUE, total |-> Len(items),
     succeeded |-> ok, failed |-> ko]

----------------------------------------------------------------------------
(* Bulk action: bulkStart / bulkStop / bulkRestart -> executeBulkAction *)

InitCommon ==
    /\ pc = "received"
    /\ allContainers = <<>>
    /\ cursor = 0
    /\ workers = <<>>
    /\ succeeded = <<>>
    /\ failed = <<>>
    /\ calls = <<>>
    /\ answers = <<>>
    /\ response = [kind |-> "none"]

InitBulk ==
    /\ InitCommon
    /\ env = None
    /\ protectedContainers = newProtectedContainers
    /\ ui = NoDashboard
    /\ svc = NoServices
    /\ entry = "bulk"
    /\ action \in BulkActions
    /\ input \in Requests
    /\ inventory \in Inventories
    /\ reqId = <<>>
    /\ targets = <<>>
    /\ concurrency = 0

\* stop of everything, on the inventory of web-1 .. web-4 and kz-dashboard-api
InitScenario ==
    /\ InitCommon
    /\ env = None
    /\ protectedContainers = newProtectedContainers
    /\ ui = NoDashboard
    /\ svc = NoServices
    /\ entry = "bulk"
    /\ action = "stop"
    /\ input = [ids |-> None, names |-> None, includeAll |-> Some(TRUE)]
    /\ inventory = ScenarioInventory
    /\ reqId = <<>>
    /\ targets = <<>>
    /\ concurrency = 0

\* executeBulkAction up to its first await: the listing call is issued
ExecuteBulkAction ==
    /\ entry = "bulk"
    /\ pc = "received"
    /\ calls' = Append(calls, [op |-> "list", id |-> <<>>])
    /\ pc' = "listing"
    /\ UNCHANGED << env, protectedContainers, ui, svc,
                    entry, action, input, reqId, inventory, allContainers,
                    targets, concurrency, cursor, workers, succeeded, failed,
                    answers, response >>

\* the daemon answers the listing; executeBulkAction goes on to resolve the
\* targets and to start the workers
ListSettle ==
    /\ pc = "listing"
    /\ \E outcome \in {Ok, Refused} :
         LET listed == listContainerSummaries(outcome, inventory)
             items == resolveBulkTargets(listed.value, input)
         IN  IF listed.threw
             THEN /\ pc' = "raised"
                  /\ response' = [kind |-> "Error", message |-> outcome.message]
                  /\ answers' = (Len(calls) :> outcome) @@ answers
                  /\ UNCHANGED << allContainers, targets, concurrency, cursor,
                                  workers, succeeded, failed, calls >>
             ELSE /\ allContainers' = listed.value
                  /\ targets' = items
                  /\ concurrency' = BULK_CONCURRENCY
                  /\ answers' = (Len(calls) :> outcome) @@ answers
                  /\ SetRun(runWithConcurrency(items, BULK_CONCURRENCY, action,
                                [RunState EXCEPT !.succeeded = <<>>,
                                                 !.failed = <<>>]))
                  /\ pc' = "run"
                  /\ UNCHANGED response
    /\ UNCHANGED << env, protectedContainers, ui, svc,
                    entry, action, input, reqId, inventory >>

\* the daemon answers the runtime call worker w waits for
RuntimeSettle(w) ==
    /\ pc = "run"
    /\ w \in DOMAIN workers
    /\ workers[w].st = "await"
    /\ \E outcome \in RuntimeOutcomes(workers[w].item[1].Id) :
         /\ SetRun(handlerSettle(RunState, w, workers[w].item[1], outcome))
         /\ answers' = (workers[w].call :> outcome) @@ answers
    /\ UNCHANGED << env, protectedContainers, ui, svc,
                    entry, pc, action, input, reqId, inventory, allContainers,
                    targets, concurrency, response >>

\* worker w goes on after await handler(item)
WorkerResume(w) ==
    /\ pc = "run"
    /\ w \in DOMAIN workers
    /\ workers[w].st = "resume"
    /\ SetRun(workerLoop(targets, action, RunState, w))
    /\ UNCHANGED << env, protectedContainers, ui, svc,
                    entry, pc, action, input, reqId, inventory, allContainers,
                    targets, concurrency, answers, response >>

\* await Promise.all(workers) is over: executeBulkAction returns its result,
\* or raises what a worker raised
BulkReturn ==
    /\ pc = "run"
    /\ entry = "bulk"
    /\ \/ anyRejected(workers)
       \/ allSettled(workers)
    /\ IF anyRejected(workers)
       THEN /\ pc' = "raised"
            /\ response' = [kind |-> "Error", message |-> "rejected"]
       ELSE /\ pc' = "returned"
            /\ response' = bulkResult(targets, succeeded, failed)
    /\ UNCHANGED << env, protectedContainers, ui, svc,
                    entry, action, input, reqId, inventory, allContainers,
                    targets, concurrency, cursor, workers, succeeded, failed,
                    calls, answers >>

Next ==
    \/ ExecuteBulkAction
    \/ ListSettle
    \/ \E w \in DOMAIN workers : RuntimeSettle(w)
    \/ \E w \in DOMAIN workers : WorkerResume(w)
    \/ BulkReturn

Spec == InitBulk /\ [][Next]_vars

\* the bulk action on the catalogue's inventories and on the scenario's
SpecScenario == (InitBulk \/ InitScenario) /\ [][Next]_vars

\* the daemon never answers the runtime call worker w waits for: nothing
\* bounds await container.start() / stop() / restart(), so the worker stays
\* at its await
RuntimeHang(w) ==
    /\ pc = "run"
    /\ w \in DOMAIN workers
    /\ workers[w].st = "await"
    /\ workers' = [workers EXCEPT ![w].st = "hung"]
    /\ UNCHANGED << env, protectedContainers, ui, svc,
                    entry, pc, action, input, reqId, inventory, allContainers,
                    targets, concurrency, cursor, succeeded, failed, calls,
                    answers, response >>

NextHang ==
    \/ Next
    \/ \E w \in DOMAIN workers : RuntimeHang(w)

\* the scenario's bulk action against a daemon that may leave calls unanswered
SpecHang == InitScenario /\ [][NextHang]_vars

----------------------------------------------------------------------------
(* runWithConcurrency called on its own, with any item list and limit *)

\* n plain containers w1..wn, none protected
HarnessItems(n) ==
    [i \in 1..n |-> [Id |-> <<"w", ToString(i)>>,
                     Names |-> Some(<< <<"/", "w", ToString(i)>> >>)]]

\* <<number of items, concurrency>>: every limit up to MaxK with item lists up
\* to MaxExtra longer than the largest of them, and the limit of the bulk action with one
\* item more than it admits
HarnessInputs ==
    { <<n, k>> : n \in 0..(MaxK + MaxExtra), k \in 1..MaxK }
    \cup { <<BULK_CONCURRENCY + 1, BULK_CONCURRENCY>> }

InitHarness ==
    /\ InitCommon
    /\ env = None
    /\ protectedContainers = newProtectedContainers
    /\ ui = NoDashboard
    /\ svc = NoServices
    /\ entry = "harness"
    /\ action = "stop"
    /\ input = [ids |-> None, names |-> None, includeAll |-> None]
    /\ inventory = <<>>
    /\ reqId = <<>>
    /\ \E p \in HarnessInputs :
         /\ targets = HarnessItems(p[1])
         /\ concurrency = p[2]

\* runWithConcurrency(items, concurrency, handler) up to await Promise.all
HarnessCall ==
    /\ entry = "harness"
    /\ pc = "received"
    /\ SetRun(runWithConcurrency(targets, concurrency, action, RunState))
    /\ pc' = "run"
    /\ UNCHANGED << env, protectedContainers, ui, svc,
                    entry, action, input, reqId, inventory, allContainers,
                    targets, concurrency, answers, response >>

\* await Promise.all(workers) is over: runWithConcurrency returns, or raises
HarnessReturn ==
    /\ entry = "harness"
    /\ pc = "run"
    /\ \/ anyRejected(workers)
       \/ allSettled(workers)
    /\ IF anyRejected(workers)
       THEN /\ pc' = "raised"
            /\ response' = [kind |-> "Error", message |-> "rejected"]
       ELSE /\ pc' = "returned"
            /\ response' = [kind |-> "void"]
    /\ UNCHANGED << env, protectedContainers, ui, svc,
                    entry, action, input, reqId, inventory, allContainers,
                    targets, concurrency, cursor, workers, succeeded, failed,
                    calls, answers >>

NextExec ==
    \/ Next
    \/ HarnessCall
    \/ HarnessReturn

\* the bulk action and the executor on its own
SpecExec == (InitBulk \/ InitHarness) /\ [][NextExec]_vars

\* runWithConcurrency called with a limit below 1: 0 and -1
InitContract ==
    /\ InitCommon
    /\ env = None
    /\ protectedContainers = newProtectedContainers
    /\ ui = NoDashboard
    /\ svc = NoServices
    /\ entry = "harness"
    /\ action = "stop"
    /\ input = [ids |-> None, names |-> None, includeAll |-> None]
    /\ inventory = <<>>
    /\ reqId = <<>>
    /\ \E n \in 0..(MaxK + MaxExtra) : targets = HarnessItems(n)
    /\ concurrency \in { 0 - 1, 0 }

NextHarness ==
    \/ HarnessCall
    \/ \E w \in DOMAIN workers : RuntimeSettle(w)
    \/ \E w \in DOMAIN workers : WorkerResume(w)
    \/ HarnessReturn

\* the executor on its own, with limits that keep its contract and that do not
SpecContract == (InitHarness \/ InitContract) /\ [][NextHarness]_vars

NextHarnessHang ==
    \/ NextHarness
    \/ \E w \in DOMAIN workers : RuntimeHang(w)

\* the executor on its own with handlers that may never complete
SpecHarnessHang == InitHarness /\ [][NextHarnessHang]_vars

----------------------------------------------------------------------------
(* Single-container action: startContainer / stopContainer / restartContainer *)

IdZ9 == <<"z","9">>

\* ids a single-container request may name: listed ones and one that is not
SingleIds == {IdA1, IdC3, IdDocker, IdZ9}

Exists(id, inv) == \E i \in 1..Len(inv) : inv[i].Id = id

\* what the daemon may answer to inspect(id): the socket may fail in any case
InspectOutcomes(id, inv) ==
    IF Exists(id, inv) THEN {Ok, Refused} ELSE {NoSuch, Refused}

\* faulty variant: the error of inspect is swallowed
assertExists_swallow(outcome, id) == [threw |-> FALSE]

\* faulty variant: a container with a protected name is refused as well
assertExists_policy(outcome, id) ==
    IF outcome.ok /\ ~\E c \in Catalogue : c.Id = id /\ isProtected(c)
    THEN [threw |-> FALSE]
    ELSE [threw |-> TRUE,
          error |-> [kind |-> "NotFoundException", status |-> 404,
                     message |-> << "Container not found: ", id >>]]

\* assertExists: any error of inspect is turned into a NotFoundException
assertExists(outcome, id) ==
    IF outcome.ok THEN [threw |-> FALSE]
    ELSE [threw |-> TRUE,
          error |-> [kind |-> "NotFoundException", status |-> 404,
                     message |-> << "Container not found: ", id >>]]

\* the runtime call each of the three methods issues after assertExists
containerCall(cs, id, act) ==
    Append(cs, [op |-> act, id |-> id])

\* the value a single-container method returns
singleResult(id, act) == [kind |-> "result", id |-> id, action |-> act]

\* an error of the runtime call is not caught: the caller gets it as raised
propagate(outcome) ==
    [kind |-> "Error", message |-> outcome.message]

InitSingle ==
    /\ InitCommon
    /\ env = None
    /\ protectedContainers = newProtectedContainers
    /\ ui = NoDashboard
    /\ svc = NoServices
    /\ entry = "single"
    /\ action \in BulkActions
    /\ input = [ids |-> None, names |-> None, includeAll |-> None]
    /\ inventory \in Inventories
    /\ reqId \in SingleIds
    /\ targets = <<>>
    /\ concurrency = 0

\* the method up to await this.assertExists(id): inspect is issued
SingleAction ==
    /\ entry = "single"
    /\ pc = "received"
    /\ calls' = Append(calls, [op |-> "inspect", id |-> reqId])
    /\ pc' = "inspecting"
    /\ UNCHANGED << env, protectedContainers, ui, svc,
                    entry, action, input, reqId, inventory, allContainers,
                    targets, concurrency, cursor, workers, succeeded, failed,
                    answers, response >>

\* the daemon answers inspect: Not-Found is raised, or the action is issued
InspectSettle ==
    /\ pc = "inspecting"
    /\ \E outcome \in InspectOutcomes(reqId, inventory) :
         LET checked == assertExists(outcome, reqId)
         IN  /\ answers' = (Len(calls) :> outcome) @@ answers
             /\ IF checked.threw
                THEN /\ pc' = "raised"
                     /\ response' = checked.error
                     /\ UNCHANGED calls
                ELSE /\ pc' = "acting"
                     /\ calls' = containerCall(calls, reqId, action)
                     /\ UNCHANGED response
    /\ UNCHANGED << env, protectedContainers, ui, svc,
                    entry, action, input, reqId, inventory, allContainers,
                    targets, concurrency, cursor, workers, succeeded, failed >>

\* the daemon answers the action: { id, action } is returned, or its error raised
ActionSettle ==
    /\ pc = "acting"
    /\ \E outcome \in {Ok, Refused, NoSuch} :
         /\ answers' = (Len(calls) :> outcome) @@ answers
         /\ IF outcome.ok
            THEN /\ pc' = "returned"
                 /\ response' = singleResult(reqId, action)
            ELSE /\ pc' = "raised"
                 /\ response' = propagate(outcome)
    /\ UNCHANGED << env, protectedContainers, ui, svc,
                    entry, action, input, reqId, inventory, allContainers,
                    targets, concurrency, cursor, workers, succeeded, failed,
                    calls >>

NextSingle ==
    \/ SingleAction
    \/ InspectSettle
    \/ ActionSettle

SpecSingle == InitSingle /\ [][NextSingle]_vars

----------------------------------------------------------------------------
(* The service in a process started with PROTECTED_CONTAINERS set *)

\* values of the variable: unset, "", " , ", " Web ,,DB", "alt", "web,web"
\* and "/docker"
EnvInputs ==
    { None,
      Some(<<>>),
      Some(<< " ", ",", " " >>),
      Some(<< " ", "W", "e", "b", " ", ",", ",", "D", "B" >>),
      Some(<< "a", "l", "t" >>),
      Some(<< "w", "e", "b", ",", "w", "e", "b" >>),
      Some(<< "/", "d", "o", "c", "k", "e", "r" >>) }

\* bulk requests of such a process: everything, or two containers by id
ConfigRequests ==
    { [ids |-> None, names |-> None, includeAll |-> Some(TRUE)],
      [ids |-> Some(<< IdA1, IdC3 >>), names |-> None, includeAll |-> None] }

InitConfig ==
    /\ InitCommon
    /\ env \in EnvInputs
    /\ protectedContainers = newProtectedContainers
    /\ ui = NoDashboard
    /\ svc = NoServices
    /\ inventory \in Inventories
    /\ targets = <<>>
    /\ concurrency = 0
    /\ \/ /\ entry = "bulk"
          /\ action = "stop"
          /\ input \in ConfigRequests
          /\ reqId = <<>>
       \/ /\ entry = "single"
          /\ action \in BulkActions
          /\ input = [ids |-> None, names |-> None, includeAll |-> None]
          /\ reqId \in SingleIds

NextConfig ==
    \/ Next
    \/ NextSingle

\* bulk and single actions under every value of the variable
SpecConfig == InitConfig /\ [][NextConfig]_vars

----------------------------------------------------------------------------
(* Numbers of the statistics.  A JavaScript number that comes out of a
   division is held exactly, as the fraction n/d in lowest terms with d > 0;
   d = 0 holds what a division by zero gives: Infinity (n = 1), -Infinity
   (n = -1) or NaN (n = 0). *)

\* largest counter value a sample holds, besides the two byte counts below
MaxCount == 3

\* largest online-CPU count the daemon reports
MaxCpus == 2

Abs(x) == IF x < 0 THEN 0 - x ELSE x

Sign(x) == IF x < 0 THEN 0 - 1 ELSE IF x > 0 THEN 1 ELSE 0

RECURSIVE GCD(_, _)
GCD(a, b) == IF b = 0 THEN a ELSE GCD(b, a % b)

\* a / b
Divide(a, b) ==
    IF b = 0 THEN [n |-> Sign(a), d |-> 0]
    ELSE LET g == GCD(Abs(a), Abs(b))
         IN  [n |-> Sign(b) * (a \div g), d |-> Abs(b) \div g]

\* q * k for an integer k
Times(q, k) ==
    IF q.d = 0 THEN [n |-> q.n * Sign(k), d |-> 0]
    ELSE LET g == GCD(Abs(k), q.d)
         IN  Divide(q.n * (k \div g), q.d \div g)

\* the number literal k
Number(k) == [n |-> k, d |-> 1]

----------------------------------------------------------------------------
(* Container statistics: getContainerStats -> toContainerStatsDto *)

\* opt?.f, for an optional record opt of optional fields
Field(opt, f) == IF opt.has THEN opt.val[f] ELSE None

\* opt?.length, for an optional array
LengthOf(opt) == IF opt.has THEN Some(Len(opt.val)) ELSE None

\* const cpuDelta
cpuDelta(stats) ==
    LET cpuUsage ==
            OrElse(Field(Field(stats.cpu_stats, "cpu_usage"), "total_usage"), 0)
        prevCpuUsage ==
            OrElse(Field(Field(stats.precpu_stats, "cpu_usage"), "total_usage"), 0)
    IN  cpuUsage - prevCpuUsage

\* const systemDelta
systemDelta(stats) ==
    LET systemCpuUsage == OrElse(Field(stats.cpu_stats, "system_cpu_usage"), 0)
        prevSystemCpuUsage ==
            OrElse(Field(stats.precpu_stats, "system_cpu_usage"), 0)
    IN  systemCpuUsage - prevSystemCpuUsage

\* faulty variant: the per-CPU array is asked first
onlineCpus_arrayFirst(stats) ==
    OrElse(LengthOf(Field(Field(stats.cpu_stats, "cpu_usage"), "percpu_usage")),
           OrElse(Field(stats.cpu_stats, "online_cpus"), 1))

\* const onlineCpus
onlineCpus(stats) ==
    OrElse(Field(stats.cpu_stats, "online_cpus"),
           OrElse(LengthOf(Field(Field(stats.cpu_stats, "cpu_usage"),
                                 "percpu_usage")),
                  1))

\* faulty variant: the system delta is not looked at
cpuPercent_noSystemGuard(stats) ==
    IF cpuDelta(stats) > 0
    THEN Times(Times(Divide(cpuDelta(stats), systemDelta(stats)),
                     onlineCpus(stats)), 100)
    ELSE Number(0)

\* faulty variant: a CPU delta below zero passes the guard
cpuPercent_anyCpuDelta(stats) ==
    IF cpuDelta(stats) # 0 /\ systemDelta(stats) > 0
    THEN Times(Times(Divide(cpuDelta(stats), systemDelta(stats)),
                     onlineCpus(stats)), 100)
    ELSE Number(0)

\* const cpuPercent
cpuPercent(stats) ==
    IF cpuDelta(stats) > 0 /\ systemDelta(stats) > 0
    THEN Times(Times(Divide(cpuDelta(stats), systemDelta(stats)),
                     onlineCpus(stats)), 100)
    ELSE Number(0)

memUsageBytes(stats) == OrElse(Field(stats.memory_stats, "usage"), 0)

memLimitBytes(stats) == OrElse(Field(stats.memory_stats, "limit"), 0)

\* faulty variant: the limit is not looked at
memPercent_noLimitGuard(stats) ==
    IF memUsageBytes(stats) > 0
    THEN Times(Divide(memUsageBytes(stats), memLimitBytes(stats)), 100)
    ELSE Number(0)

\* const memPercent
memPercent(stats) ==
    IF memUsageBytes(stats) > 0 /\ memLimitBytes(stats) > 0
    THEN Times(Divide(memUsageBytes(stats), memLimitBytes(stats)), 100)
    ELSE Number(0)

toContainerStatsDto(stats) ==
    [kind |-> "stats",
     cpuPercent |-> cpuPercent(stats),
     memUsageBytes |-> memUsageBytes(stats),
     memLimitBytes |-> memLimitBytes(stats),
     memPercent |-> memPercent(stats),
     pids |-> Field(stats.pids_stats, "current")]

\* getContainerStats: any error of the stats call is a BadGatewayException
statsFailure(outcome) ==
    [kind |-> "BadGatewayException", status |-> 502,
     message |-> IF outcome.isError THEN outcome.message
                 ELSE "Container stats unavailable"]

\* counters of one sample: absent, or 0..MaxCount
Counters == {None} \cup { Some(v) : v \in 0..MaxCount }

\* online_cpus: absent, or 0..MaxCpus
CpuCounts == {None} \cup { Some(v) : v \in 0..MaxCpus }

\* percpu_usage: absent, empty, or one entry more than MaxCpus
PerCpuArrays == {None, Some(<<>>), Some([i \in 1..(MaxCpus + 1) |-> 1])}

\* <<usage, limit>> of memory_stats: small counts, and 50 MB / 100 MB in every
\* combination with each other, with 0 and with a missing value
ByteCounts ==
    (Counters \X Counters)
    \cup ({None, Some(0), Some(50000000), Some(100000000)}
          \X {None, Some(0), Some(50000000), Some(100000000)})

CpuSnapshot(t, pt, s, ps, on, per) ==
    [cpu_stats |-> Some([cpu_usage |-> Some([total_usage |-> t,
                                             percpu_usage |-> per]),
                         system_cpu_usage |-> s,
                         online_cpus |-> on]),
     precpu_stats |-> Some([cpu_usage |-> Some([total_usage |-> pt]),
                            system_cpu_usage |-> ps]),
     memory_stats |-> None,
     pids_stats |-> None]

MemSnapshot(u, l, p) ==
    [cpu_stats |-> None,
     precpu_stats |-> None,
     memory_stats |-> Some([usage |-> u, limit |-> l]),
     pids_stats |-> p]

\* snapshots in which an inner object is missing
SparseSnapshots ==
    { [cpu_stats |-> None, precpu_stats |-> None,
       memory_stats |-> None, pids_stats |-> None],
      [cpu_stats |-> Some([cpu_usage |-> None,
                           system_cpu_usage |-> Some(MaxCount),
                           online_cpus |-> None]),
       precpu_stats |-> Some([cpu_usage |-> None,
                              system_cpu_usage |-> Some(0)]),
       memory_stats |-> None, pids_stats |-> None],
      [cpu_stats |-> Some([cpu_usage |-> Some([total_usage |-> Some(MaxCount),
                                               percpu_usage |-> Some(<<1>>)]),
                           system_cpu_usage |-> Some(MaxCount),
                           online_cpus |-> None]),
       precpu_stats |-> None,
       memory_stats |-> None, pids_stats |-> None] }

\* what container.stats({ stream: false }) may resolve to
Snapshots ==
    { CpuSnapshot(t, pt, s, ps, on, per) :
        t \in Counters, pt \in Counters, s \in Counters, ps \in Counters,
        on \in CpuCounts, per \in PerCpuArrays }
    \cup { MemSnapshot(m[1], m[2], p) :
             m \in ByteCounts,
             p \in {None, Some([current |-> None]),
                    Some([current |-> Some(7)])} }
    \cup SparseSnapshots

StatsOutcomes ==
    { [ok |-> TRUE, stats |-> s] : s \in Snapshots } \cup {Refused, NoSuch}

InitStats ==
    /\ InitCommon
    /\ env = None
    /\ protectedContainers = newProtectedContainers
    /\ ui = NoDashboard
    /\ svc = NoServices
    /\ entry = "stats"
    /\ action = "start"
    /\ input = [ids |-> None, names |-> None, includeAll |-> None]
    /\ inventory = <<>>
    /\ reqId \in {IdA1, IdZ9}
    /\ targets = <<>>
    /\ concurrency = 0

\* getContainerStats up to its await: the stats call is issued
GetContainerStats ==
    /\ entry = "stats"
    /\ pc = "received"
    /\ calls' = Append(calls, [op |-> "stats", id |-> reqId])
    /\ pc' = "measuring"
    /\ UNCHANGED << env, protectedContainers, ui, svc,
                    entry, action, input, reqId, inventory, allContainers,
                    targets, concurrency, cursor, workers, succeeded, failed,
                    answers, response >>

\* the daemon answers: the snapshot is converted, or its error is wrapped
StatsSettle ==
    /\ pc = "measuring"
    /\ \E outcome \in StatsOutcomes :
         /\ answers' = (Len(calls) :> outcome) @@ answers
         /\ IF outcome.ok
            THEN /\ pc' = "returned"
                 /\ response' = toContainerStatsDto(outcome.stats)
            ELSE /\ pc' = "raised"
                 /\ response' = statsFailure(outcome)
    /\ UNCHANGED << env, protectedContainers, ui, svc,
                    entry, action, input, reqId, inventory, allContainers,
                    targets, concurrency, cursor, workers, succeeded, failed,
                    calls >>

NextStats ==
    \/ GetContainerStats
    \/ StatsSettle

SpecStats == InitStats /\ [][NextStats]_vars

----------------------------------------------------------------------------
(* Host statistics: StatsService.getCpuPercent *)

\* largest value of a user or idle counter of one core
MaxTick == 2

\* cpu.times of one core
CoreTimes ==
    { [user |-> u, nice |-> x[1], sys |-> x[2], idle |-> i, irq |-> x[3]] :
        u \in 0..MaxTick, i \in 0..MaxTick,
        x \in { <<0, 0, 0>>, <<1, 0, 0>>, <<0, 1, 1>> } }

\* what os.cpus() may return: one core, or two with the second one either
\* at zero or busy
CpuSamples ==
    { <<c>> : c \in CoreTimes }
    \cup { <<c, d>> : c \in CoreTimes,
                      d \in { [user |-> 0, nice |-> 0, sys |-> 0,
                               idle |-> 0, irq |-> 0],
                              [user |-> MaxTick, nice |-> 0, sys |-> 1,
                               idle |-> MaxTick, irq |-> 0] } }

RECURSIVE sumCpuTimes(_)
sumCpuTimes(cpus) ==
    IF cpus = <<>> THEN [idle |-> 0, total |-> 0]
    ELSE LET times == Head(cpus)
             rest == sumCpuTimes(Tail(cpus))
         IN  [idle |-> rest.idle + times.idle,
              total |-> rest.total + times.user + times.nice + times.sys
                        + times.idle + times.irq]

\* k - q for an integer k
Subtract(k, q) == Divide(k * q.d - q.n, q.d)

\* Math.round(q): the nearest integer, a half going up
MathRound(q) == (2 * q.n + q.d) \div (2 * q.d)

\* faulty variant: the percentage is returned as computed
getCpuPercent_noRound(first, second) ==
    LET idleDiff == second.idle - first.idle
        totalDiff == second.total - first.total
    IN  IF totalDiff <= 0 THEN Number(0)
        ELSE Subtract(100, Times(Divide(idleDiff, totalDiff), 100))

\* getCpuPercent, from the sums of its two samples on
getCpuPercent(first, second) ==
    LET idleDiff == second.idle - first.idle
        totalDiff == second.total - first.total
    IN  IF totalDiff <= 0 THEN Number(0)
        ELSE LET percent ==
                     Subtract(100, Times(Divide(idleDiff, totalDiff), 100))
             IN  Divide(MathRound(Times(percent, 10)), 10)

InitHost ==
    /\ InitCommon
    /\ env = None
    /\ protectedContainers = newProtectedContainers
    /\ ui = NoDashboard
    /\ svc = NoServices
    /\ entry = "host"
    /\ action = "start"
    /\ input = [ids |-> None, names |-> None, includeAll |-> None]
    /\ inventory = <<>>
    /\ reqId = <<>>
    /\ targets = <<>>
    /\ concurrency = 0

\* getCpuPercent up to its await: the first sample is taken, the timer is set
HostFirstSample ==
    /\ entry = "host"
    /\ pc = "received"
    /\ \E cpus \in CpuSamples :
         /\ calls' = Append(calls, [op |-> "cpus", id |-> <<>>])
         /\ answers' = (Len(calls) + 1 :> [ok |-> TRUE, cpus |-> cpus]) @@ answers
    /\ pc' = "sleeping"
    /\ UNCHANGED << env, protectedContainers, ui, svc,
                    entry, action, input, reqId, inventory, allContainers,
                    targets, concurrency, cursor, workers, succeeded, failed,
                    response >>

\* the timer fires: the second sample is taken, of the same cores, and the
\* percentage is returned
HostSecondSample ==
    /\ pc = "sleeping"
    /\ \E cpus \in CpuSamples :
         /\ Len(cpus) = Len(answers[1].cpus)
         /\ calls' = Append(calls, [op |-> "cpus", id |-> <<>>])
         /\ answers' = (Len(calls) + 1 :> [ok |-> TRUE, cpus |-> cpus]) @@ answers
         /\ response' = [kind |-> "number",
                         value |-> getCpuPercent(sumCpuTimes(answers[1].cpus),
                                                 sumCpuTimes(cpus))]
    /\ pc' = "returned"
    /\ UNCHANGED << env, protectedContainers, ui, svc,
                    entry, action, input, reqId, inventory, allContainers,
                    targets, concurrency, cursor, workers, succeeded, failed >>

NextHost ==
    \/ HostFirstSample
    \/ HostSecondSample

SpecHost == InitHost /\ [][NextHost]_vars

----------------------------------------------------------------------------
(* Next.js proxy routes: POST /api/containers/bulk/[action] and
   POST /api/clusters/[cluster]/[action] *)

\* faulty variant: one more action is let through
allowedActions_withRemove == {"start", "stop", "restart", "remove"}

allowedActions == {"start", "stop", "restart"}

\* the [action] segments a browser may send
ProxyActions == allowedActions \cup {"Start", "remove", ""}

\* the [cluster] segments: "c1" and "a/b"
ProxyClusters == { << "c", "1" >>, << "a", "/", "b" >> }

\* request bodies of the bulk route
ProxyPayloads == { "", "{\"includeAll\":true}" }

\* encodeURIComponent, on the characters of the cluster names
RECURSIVE encodeURIComponent(_)
encodeURIComponent(s) ==
    IF s = <<>> THEN <<>>
    ELSE (IF Head(s) = "/" THEN << "%", "2", "F" >>
          ELSE IF Head(s) = " " THEN << "%", "2", "0" >>
          ELSE << Head(s) >>) \o encodeURIComponent(Tail(s))

\* the request the bulk route sends to the backend
bulkFetch(act, payload) ==
    [op |-> "fetch", method |-> "POST",
     path |-> << "containers", "bulk", act >>, body |-> Some(payload)]

\* the request the cluster route sends to the backend
clusterFetch(cluster, act) ==
    [op |-> "fetch", method |-> "POST",
     path |-> << "clusters", encodeURIComponent(cluster), act >>, body |-> None]

\* NextResponse.json({ message }, { status })
NextResponseJson(message, status) ==
    [kind |-> "http", status |-> status, body |-> [message |-> message],
     contentType |-> "application/json"]

\* new NextResponse(body, { status, headers: { 'content-type': ... } })
NextResponse(body, status, contentType) ==
    [kind |-> "http", status |-> status, body |-> body,
     contentType |-> OrElse(contentType, "application/json")]

\* what becomes of an error of fetch or of response.text(): the cluster route
\* catches it, the bulk route has no try and lets it through
proxyFailure(route, outcome) ==
    IF route = "proxyCluster"
    THEN NextResponseJson("Failed to reach backend service", 502)
    ELSE [kind |-> "Error", message |-> outcome.message]

\* the statuses the backend answers a POST with
BackendStatuses == {201, 400, 404, 500, 502}

\* what fetch may settle with: the head of a backend response, or an error
FetchOutcomes ==
    { [ok |-> TRUE, status |-> st, contentType |-> ct, body |-> None] :
        st \in BackendStatuses,
        ct \in {None, Some("application/json; charset=utf-8")} }
    \cup { [ok |-> FALSE, isError |-> TRUE, message |-> "fetch failed"] }

\* what response.text() may settle with
TextOutcomes ==
    { [ok |-> TRUE, text |-> "{\"ok\":true}"],
      [ok |-> TRUE, text |-> ""],
      [ok |-> FALSE, isError |-> TRUE, message |-> "terminated"] }

InitProxy ==
    /\ InitCommon
    /\ env = None
    /\ protectedContainers = newProtectedContainers
    /\ ui = NoDashboard
    /\ svc = NoServices
    /\ action \in ProxyActions
    /\ inventory = <<>>
    /\ targets = <<>>
    /\ concurrency = 0
    /\ \/ /\ entry = "proxyBulk"
          /\ input \in ProxyPayloads
          /\ reqId = <<>>
       \/ /\ entry = "proxyCluster"
          /\ input = ""
          /\ reqId \in ProxyClusters

\* POST up to await fetch: the action is checked, then the request is sent on
ProxyPost ==
    /\ entry \in {"proxyBulk", "proxyCluster"}
    /\ pc = "received"
    /\ IF action \notin allowedActions
       THEN /\ response' = NextResponseJson("Invalid action", 400)
            /\ pc' = "returned"
            /\ UNCHANGED calls
       ELSE /\ calls' = Append(calls, IF entry = "proxyBulk"
                                      THEN bulkFetch(action, input)
                                      ELSE clusterFetch(reqId, action))
            /\ pc' = "fetching"
            /\ UNCHANGED response
    /\ UNCHANGED << env, protectedContainers, ui, svc,
                    entry, action, input, reqId, inventory, allContainers,
                    targets, concurrency, cursor, workers, succeeded, failed,
                    answers >>

\* fetch settles: on to await response.text(), or the error takes its way
ProxyFetchSettle ==
    /\ pc = "fetching"
    /\ \E outcome \in FetchOutcomes :
         /\ answers' = (Len(calls) :> outcome) @@ answers
         /\ IF outcome.ok
            THEN /\ pc' = "reading"
                 /\ UNCHANGED response
            ELSE /\ response' = proxyFailure(entry, outcome)
                 /\ pc' = IF response'.kind = "http" THEN "returned"
                           ELSE "raised"
    /\ UNCHANGED << env, protectedContainers, ui, svc,
                    entry, action, input, reqId, inventory, allContainers,
                    targets, concurrency, cursor, workers, succeeded, failed,
                    calls >>

\* response.text() settles: the backend's status and body are handed back
ProxyTextSettle ==
    /\ pc = "reading"
    /\ \E outcome \in TextOutcomes :
         IF outcome.ok
         THEN /\ answers' = [answers EXCEPT
                                ![Len(calls)].body = Some(outcome.text)]
              /\ response' = NextResponse(outcome.text,
                                          answers[Len(calls)].status,
                                          answers[Len(calls)].contentType)
              /\ pc' = "returned"
         ELSE /\ UNCHANGED answers
              /\ response' = proxyFailure(entry, outcome)
              /\ pc' = IF response'.kind = "http" THEN "returned"
                        ELSE "raised"
    /\ UNCHANGED << env, protectedContainers, ui, svc,
                    entry, action, input, reqId, inventory, allContainers,
                    targets, concurrency, cursor, workers, succeeded, failed,
                    calls >>

NextProxy ==
    \/ ProxyPost
    \/ ProxyFetchSettle
    \/ ProxyTextSettle

SpecProxy == InitProxy /\ [][NextProxy]_vars

----------------------------------------------------------------------------
(* The dashboard: ContainerDashboard's pending markers, its polling effect and
   runAction / runBulkAction / runClusterAction.  The three are click handlers,
   so React renders and runs the effects before the browser runs anything
   else; a state update made after an await is rendered in a later task. *)

\* interval-triggered refreshes looked at
MaxPolls == 2

\* actions the user starts
MaxClicks == 2

\* no action coroutine is running
NoRun == [kind |-> "none", at |-> "none"]

\* faulty variant: the effect sets the interval whatever the markers are
pollingEffect_always(u) == Some("interval")

\* the polling effect: no interval while a marker is set
pollingEffect(u) ==
    IF u.pendingKey # None \/ u.pendingBulkAction # None
    THEN None
    ELSE Some("interval")

\* a render with its effects: isBusy is computed, the cleanup of the polling
\* effect clears the interval and the effect runs again
commit(u) ==
    [u EXCEPT !.isBusy = (u.pendingKey # None \/ u.pendingBulkAction # None),
              !.intervalId = pollingEffect(u),
              !.stale = FALSE]

\* runAction up to await fetch
runAction(u, id, act) ==
    commit([u EXCEPT !.pendingKey = Some(<< id, act >>),
                     !.errorMessage = None,
                     !.run = [kind |-> "single", at |-> "fetch"],
                     !.outcome = None,
                     !.clicks = @ + 1])

\* runBulkAction up to await fetch, or to its return when not confirmed
runBulkAction(u, act, isConfirmed) ==
    IF act # "start" /\ ~isConfirmed THEN u
    ELSE commit([u EXCEPT !.pendingBulkAction = Some(act),
                          !.errorMessage = None,
                          !.run = [kind |-> "bulk", at |-> "fetch"],
                          !.outcome = None,
                          !.clicks = @ + 1])

\* runClusterAction up to await fetch, or to one of its early returns
runClusterAction(u, act, isConfirmed) ==
    IF u.selectedCluster = "all" THEN u
    ELSE IF act # "start" /\ ~isConfirmed THEN u
    ELSE commit([u EXCEPT !.pendingBulkAction = Some(act),
                          !.errorMessage = None,
                          !.run = [kind |-> "cluster", at |-> "fetch"],
                          !.outcome = None,
                          !.clicks = @ + 1])

\* faulty variant: the marker is cleared at the end of the try block only
finally_inTry(u, threw) ==
    IF threw THEN [u EXCEPT !.run = NoRun, !.stale = TRUE]
    ELSE IF u.run.kind = "single"
    THEN [u EXCEPT !.pendingKey = None, !.run = NoRun, !.stale = TRUE]
    ELSE [u EXCEPT !.pendingBulkAction = None, !.run = NoRun, !.stale = TRUE]

\* the finally block of the three: the marker of the action goes back to null
finally(u, threw) ==
    IF u.run.kind = "single"
    THEN [u EXCEPT !.pendingKey = None, !.run = NoRun, !.stale = TRUE]
    ELSE [u EXCEPT !.pendingBulkAction = None, !.run = NoRun, !.stale = TRUE]

\* the catch block of the three, then finally
catch(u) ==
    finally([u EXCEPT !.errorMessage = Some("Failed")], TRUE)

\* the running action takes note of how its request settled
settled(u, outcome) == [u EXCEPT !.outcome = Some(outcome)]

\* the action's fetch settles: "ok", "notOk" (response.ok is false), "threw"
afterFetch(u, outcome) ==
    IF outcome # "ok" THEN catch(settled(u, outcome))
    ELSE IF u.run.kind = "single"
    THEN [settled(u, outcome) EXCEPT !.run.at = "refresh"]
    ELSE [settled(u, outcome) EXCEPT !.run.at = "json"]

\* response.json() of a bulk or cluster action settles: "result", "noLists"
\* (a body without succeeded and failed, reading .length throws), "threw"
afterJson(u, outcome) ==
    IF outcome # "result" THEN catch(settled(u, outcome))
    ELSE [u EXCEPT !.run.at = "refresh"]

\* await refreshContainers() / refreshAll() is over; both catch their errors
afterRefresh(u) == finally(u, FALSE)

InitDashboard ==
    /\ InitCommon
    /\ env = None
    /\ protectedContainers = newProtectedContainers
    /\ svc = NoServices
    /\ entry = "dashboard"
    /\ action = "start"
    /\ input = [ids |-> None, names |-> None, includeAll |-> None]
    /\ inventory = <<>>
    /\ reqId = <<>>
    /\ targets = <<>>
    /\ concurrency = 0
    /\ ui = commit([kind |-> "dashboard",
                    pendingKey |-> None,
                    pendingBulkAction |-> None,
                    selectedCluster |-> "all",
                    errorMessage |-> None,
                    isBusy |-> FALSE,
                    intervalId |-> None,
                    stale |-> FALSE,
                    run |-> NoRun,
                    outcome |-> None,
                    clicks |-> 0,
                    polls |-> 0,
                    lists |-> 0,
                    stats |-> 0])

\* the entries of the cluster list: all containers, or one cluster
DashboardClusters == {"all", "c1"}

\* a click on an entry of the cluster list; filteredContainers changes with
\* it, so the polling effect runs again
SelectCluster ==
    /\ entry = "dashboard"
    /\ \E cluster \in DashboardClusters \ {ui.selectedCluster} :
         ui' = commit([ui EXCEPT !.selectedCluster = cluster])
    /\ UNCHANGED << env, protectedContainers, svc,
                    entry, pc, action, input, reqId, inventory, allContainers,
                    targets, concurrency, cursor, workers, succeeded, failed,
                    calls, answers, response >>

\* a click on an enabled button of a container, of the bulk bar or of the
\* cluster bar
Click ==
    /\ entry = "dashboard"
    /\ ~ui.isBusy
    /\ ui.clicks < MaxClicks
    /\ \E act \in BulkActions, isConfirmed \in BOOLEAN :
         \/ ui' = runAction(ui, IdA1, act)
         \/ ui' = runBulkAction(ui, act, isConfirmed)
         \/ ui' = runClusterAction(ui, act, isConfirmed)
    /\ UNCHANGED << env, protectedContainers, svc,
                    entry, pc, action, input, reqId, inventory, allContainers,
                    targets, concurrency, cursor, workers, succeeded, failed,
                    calls, answers, response >>

\* the fetch of the running action settles
ActionFetchSettle ==
    /\ entry = "dashboard"
    /\ ui.run.at = "fetch"
    /\ \E outcome \in {"ok", "notOk", "threw"} :
         ui' = afterFetch(ui, outcome)
    /\ UNCHANGED << env, protectedContainers, svc,
                    entry, pc, action, input, reqId, inventory, allContainers,
                    targets, concurrency, cursor, workers, succeeded, failed,
                    calls, answers, response >>

\* response.json() of the running bulk or cluster action settles
ActionJsonSettle ==
    /\ entry = "dashboard"
    /\ ui.run.at = "json"
    /\ \E outcome \in {"result", "noLists", "threw"} :
         ui' = afterJson(ui, outcome)
    /\ UNCHANGED << env, protectedContainers, svc,
                    entry, pc, action, input, reqId, inventory, allContainers,
                    targets, concurrency, cursor, workers, succeeded, failed,
                    calls, answers, response >>

\* the refresh the running action waits for is over
ActionRefreshSettle ==
    /\ entry = "dashboard"
    /\ ui.run.at = "refresh"
    /\ ui' = afterRefresh(ui)
    /\ UNCHANGED << env, protectedContainers, svc,
                    entry, pc, action, input, reqId, inventory, allContainers,
                    targets, concurrency, cursor, workers, succeeded, failed,
                    calls, answers, response >>

\* React renders the updates made after an await and runs the effects
Render ==
    /\ entry = "dashboard"
    /\ ui.stale
    /\ ui' = commit(ui)
    /\ UNCHANGED << env, protectedContainers, svc,
                    entry, pc, action, input, reqId, inventory, allContainers,
                    targets, concurrency, cursor, workers, succeeded, failed,
                    calls, answers, response >>

\* the interval fires: void refreshAll(), up to its first await, with
\* refreshContainers and fetchHostStats started
IntervalFires ==
    /\ entry = "dashboard"
    /\ ui.intervalId # None
    /\ ui.polls < MaxPolls
    /\ ui' = [ui EXCEPT !.polls = @ + 1, !.lists = @ + 1]
    /\ UNCHANGED << env, protectedContainers, svc,
                    entry, pc, action, input, reqId, inventory, allContainers,
                    targets, concurrency, cursor, workers, succeeded, failed,
                    calls, answers, response >>

\* refreshAll after await Promise.all: the containers and the host stats are
\* stored and fetchVisibleContainerStats starts its requests (the dashboard
\* shows at least the container the user acts on)
RefreshAllLists ==
    /\ entry = "dashboard"
    /\ ui.lists > 0
    /\ ui' = [ui EXCEPT !.lists = @ - 1, !.stats = @ + 1, !.stale = TRUE]
    /\ UNCHANGED << env, protectedContainers, svc,
                    entry, pc, action, input, reqId, inventory, allContainers,
                    targets, concurrency, cursor, workers, succeeded, failed,
                    calls, answers, response >>

\* refreshAll after await fetchVisibleContainerStats: the stats are stored
RefreshAllStats ==
    /\ entry = "dashboard"
    /\ ui.stats > 0
    /\ ui' = [ui EXCEPT !.stats = @ - 1, !.stale = TRUE]
    /\ UNCHANGED << env, protectedContainers, svc,
                    entry, pc, action, input, reqId, inventory, allContainers,
                    targets, concurrency, cursor, workers, succeeded, failed,
                    calls, answers, response >>

NextDashboard ==
    \/ SelectCluster
    \/ Click
    \/ ActionFetchSettle
    \/ ActionJsonSettle
    \/ ActionRefreshSettle
    \/ Render
    \/ IntervalFires
    \/ RefreshAllLists
    \/ RefreshAllStats

SpecDashboard == InitDashboard /\ [][NextDashboard]_vars

----------------------------------------------------------------------------
(* ServicesService: deployService and switchProfile, with several requests
   under way at a time.  Each await of a method ends in a step of its own, in
   which the daemon's answer and the method's continuation happen together. *)

\* requests under way at a time
MaxInFlight == 2

\* config.settings?.max_concurrent ?? 3
DefaultMaxConcurrent == 3

\* services.yml: deploy-mode services (a, b, c by image and d by compose) and
\* the profile-mode service p
DeployModes == [a |-> "image", b |-> "image", c |-> "image", d |-> "compose"]
ProfileService == "p"
ServiceNames == DOMAIN DeployModes \cup {ProfileService}

\* entry.profiles of p: profile name to image
Profiles == [easy |-> "p:easy", hard |-> "p:hard"]

\* names a request may carry: the services and one that is not configured
RequestNames == ServiceNames \cup {"zz"}
RequestProfiles == DOMAIN Profiles \cup {"nope"}

\* `kz-${name}`: the container of an image service, the project of a compose one
kz(name) == << "kz-", name >>

\* a container of the compose project kz-name
composeContainer(name) == kz(name) \o << "-app-1" >>

\* entry.container_name of p
ProfileContainer == << "p-app" >>

\* cName.startsWith(prefix), names being lists of pieces
startsWith(cName, prefix) ==
    /\ Len(cName) >= Len(prefix)
    /\ SubSeq(cName, 1, Len(prefix)) = prefix

\* the container that deploying name gets running
deployedContainer(name) ==
    IF DeployModes[name] = "image" THEN kz(name) ELSE composeContainer(name)

\* isDeployServiceRunning over the containers map
isDeployServiceRunning(name, containers) ==
    IF DeployModes[name] = "image"
    THEN kz(name) \in DOMAIN containers /\ containers[kz(name)].running
    ELSE \E cName \in DOMAIN containers :
            startsWith(cName, kz(name)) /\ containers[cName].running

\* countRunningDeployServices over the containers map
countRunningDeployServices(containers) ==
    Cardinality({ name \in DOMAIN DeployModes :
                    isDeployServiceRunning(name, containers) })

\* the empty map
NoContainers == [cName \in {} |-> [running |-> FALSE, image |-> "", by |-> 0]]

\* listAllContainers: the daemon's list, and the empty map when it fails
listAllContainers(outcome, containers) ==
    IF outcome.ok THEN containers ELSE NoContainers

maxConcurrent(v) == OrElse(v.max_concurrent, DefaultMaxConcurrent)

\* a slot no request occupies (a container that the switchProfile request of
\* slot r created carries r as by, the others 0)
Idle == [op |-> "none", name |-> "", profile |-> "", pc |-> "idle",
         same |-> FALSE, ops |-> 0, wrote |-> FALSE, error |-> None]

\* the request of slot r goes to pc
goto(v, r, pc2) == [v EXCEPT !.reqs[r].pc = pc2]

\* the request of slot r raises an exception
throw(v, r, kind) ==
    [v EXCEPT !.reqs[r].pc = "raised", !.reqs[r].error = Some(kind)]

\* a map with cName set to c
withContainer(containers, cName, c) ==
    [n \in DOMAIN containers \cup {cName} |->
        IF n = cName THEN c ELSE containers[n]]

\* a map without cName
withoutContainer(containers, cName) ==
    [n \in DOMAIN containers \ {cName} |-> containers[n]]

\* deployService up to await countRunningDeployServices
deployService(v, r, name) ==
    LET w == [v EXCEPT !.reqs[r] = [Idle EXCEPT !.op = "deploy",
                                                !.name = name]]
    IN  IF name \notin ServiceNames THEN throw(w, r, "NotFoundException")
        ELSE IF name \notin DOMAIN DeployModes
        THEN throw(w, r, "BadRequestException")
        ELSE goto(w, r, "count")

\* deployService after the count: refused at the maximum, deployed below it
\* (blind notes that a count was taken from a list the daemon failed to give)
afterCount(v, r, outcome) ==
    LET runningCount ==
            countRunningDeployServices(
                listAllContainers(outcome, v.containers))
        w == [v EXCEPT !.blind = @ \/ ~outcome.ok]
    IN  IF runningCount >= maxConcurrent(v)
        THEN throw(w, r, "BadRequestException")
        ELSE goto(w, r, "deploy")

\* deployImage / deployCompose are over: the service's container runs, or
\* the error of docker is raised
afterDeploy(v, r, outcome) ==
    LET name == v.reqs[r].name
        c == IF deployedContainer(name) \in DOMAIN v.containers
             THEN [v.containers[deployedContainer(name)]
                      EXCEPT !.running = TRUE]
             ELSE [running |-> TRUE, image |-> name, by |-> 0]
    IN  IF outcome = "up"
        THEN goto([v EXCEPT !.containers =
                       withContainer(@, deployedContainer(name), c),
                            !.reqs[r].ops = @ + 1], r, "list")
        ELSE throw(v, r, "BadRequestException")

\* faulty variant: active_profile is written before the container is recreated
switchProfile_writeFirst(v, r, name, profile) ==
    LET w == [v EXCEPT !.reqs[r] = [Idle EXCEPT !.op = "switch",
                                                !.name = name,
                                                !.profile = profile]]
    IN  IF name \notin ServiceNames THEN throw(w, r, "NotFoundException")
        ELSE IF name # ProfileService THEN throw(w, r, "BadRequestException")
        ELSE IF profile \notin DOMAIN Profiles
        THEN throw(w, r, "BadRequestException")
        ELSE IF v.active_profile = profile
        THEN goto([w EXCEPT !.reqs[r].same = TRUE], r, "list")
        ELSE goto([w EXCEPT !.active_profile = profile,
                            !.reqs[r].wrote = TRUE], r, "remove")

\* switchProfile up to its first await
switchProfile(v, r, name, profile) ==
    LET w == [v EXCEPT !.reqs[r] = [Idle EXCEPT !.op = "switch",
                                                !.name = name,
                                                !.profile = profile]]
    IN  IF name \notin ServiceNames THEN throw(w, r, "NotFoundException")
        ELSE IF name # ProfileService THEN throw(w, r, "BadRequestException")
        ELSE IF profile \notin DOMAIN Profiles
        THEN throw(w, r, "BadRequestException")
        ELSE IF v.active_profile = profile
        THEN goto([w EXCEPT !.reqs[r].same = TRUE], r, "list")
        ELSE goto(w, r, "remove")

\* recreateProfileContainer, first try block: the old container is stopped
\* and removed ("removed"), only stopped because remove failed ("stopped"),
\* or left as it is because inspect or stop failed ("kept"); no error leaves
\* the block
afterRemove(v, r, outcome) ==
    LET has == ProfileContainer \in DOMAIN v.containers
    IN  IF has /\ outcome = "removed"
        THEN goto([v EXCEPT !.containers =
                       withoutContainer(@, ProfileContainer),
                            !.reqs[r].ops = @ + 1], r, "create")
        ELSE IF has /\ outcome = "stopped"
        THEN goto([v EXCEPT !.containers[ProfileContainer].running = FALSE,
                            !.reqs[r].ops = @ + 1], r, "create")
        ELSE goto(v, r, "create")

\* recreateProfileContainer, createContainer: a container of the new image,
\* or the daemon's error, which a container of that name always causes
afterCreate(v, r, outcome) ==
    IF outcome = "created" /\ ProfileContainer \notin DOMAIN v.containers
    THEN goto([v EXCEPT !.containers =
                   withContainer(@, ProfileContainer,
                       [running |-> FALSE,
                        image |-> Profiles[v.reqs[r].profile],
                        by |-> r]),
                        !.reqs[r].ops = @ + 1], r, "start")
    ELSE throw(v, r, "Error")

\* recreateProfileContainer, container.start() of the container this request
\* created (it fails when another request has removed that one), and what
\* switchProfile does next: entry.active_profile = profile;
\* this.writeConfig(config)
afterStart(v, r, outcome) ==
    IF /\ outcome = "started"
       /\ ProfileContainer \in DOMAIN v.containers
       /\ v.containers[ProfileContainer].by = r
    THEN goto([v EXCEPT !.containers[ProfileContainer].running = TRUE,
                        !.active_profile = v.reqs[r].profile,
                        !.reqs[r].ops = @ + 1,
                        !.reqs[r].wrote = TRUE], r, "list")
    ELSE throw(v, r, "Error")

\* services.yml as installed: max_concurrent set or left out, p on easy
InitServices ==
    /\ InitCommon
    /\ env = None
    /\ protectedContainers = newProtectedContainers
    /\ ui = NoDashboard
    /\ entry = "services"
    /\ action = "start"
    /\ input = [ids |-> None, names |-> None, includeAll |-> None]
    /\ inventory = <<>>
    /\ reqId = <<>>
    /\ targets = <<>>
    /\ concurrency = 0
    /\ \E limit \in {None, Some(1)} :
         svc = [kind |-> "services",
                max_concurrent |-> limit,
                active_profile |-> "easy",
                containers |-> withContainer(NoContainers, ProfileContainer,
                                  [running |-> TRUE, image |-> Profiles.easy,
                                   by |-> 0]),
                reqs |-> [r \in 1..MaxInFlight |-> Idle],
                blind |-> FALSE]

\* a slot a new request may take
Free(r) == svc.reqs[r].pc \in {"idle", "returned", "raised"}

\* POST services/:name/deploy arrives
DeployService(r) ==
    /\ entry = "services"
    /\ Free(r)
    /\ \E name \in RequestNames : svc' = deployService(svc, r, name)
    /\ UNCHANGED << env, protectedContainers, ui,
                    entry, pc, action, input, reqId, inventory, allContainers,
                    targets, concurrency, cursor, workers, succeeded, failed,
                    calls, answers, response >>

\* the daemon answers the list of countRunningDeployServices
CountSettle(r) ==
    /\ entry = "services"
    /\ svc.reqs[r].pc = "count"
    /\ \E outcome \in {Ok, Refused} : svc' = afterCount(svc, r, outcome)
    /\ UNCHANGED << env, protectedContainers, ui,
                    entry, pc, action, input, reqId, inventory, allContainers,
                    targets, concurrency, cursor, workers, succeeded, failed,
                    calls, answers, response >>

\* deployImage or deployCompose is over
DeploySettle(r) ==
    /\ entry = "services"
    /\ svc.reqs[r].pc = "deploy"
    /\ \E outcome \in {"up", "failed"} : svc' = afterDeploy(svc, r, outcome)
    /\ UNCHANGED << env, protectedContainers, ui,
                    entry, pc, action, input, reqId, inventory, allContainers,
                    targets, concurrency, cursor, workers, succeeded, failed,
                    calls, answers, response >>

\* POST services/:name/switch arrives
SwitchProfile(r) ==
    /\ entry = "services"
    /\ Free(r)
    /\ \E name \in {ProfileService, "a", "zz"}, profile \in RequestProfiles :
         svc' = switchProfile(svc, r, name, profile)
    /\ UNCHANGED << env, protectedContainers, ui,
                    entry, pc, action, input, reqId, inventory, allContainers,
                    targets, concurrency, cursor, workers, succeeded, failed,
                    calls, answers, response >>

\* the first try block of recreateProfileContainer is over
RemoveSettle(r) ==
    /\ entry = "services"
    /\ svc.reqs[r].pc = "remove"
    /\ \E outcome \in {"removed", "stopped", "kept"} :
         svc' = afterRemove(svc, r, outcome)
    /\ UNCHANGED << env, protectedContainers, ui,
                    entry, pc, action, input, reqId, inventory, allContainers,
                    targets, concurrency, cursor, workers, succeeded, failed,
                    calls, answers, response >>

\* the pull is over (its error is only logged) and createContainer answers
CreateSettle(r) ==
    /\ entry = "services"
    /\ svc.reqs[r].pc = "create"
    /\ \E outcome \in {"created", "failed"} :
         svc' = afterCreate(svc, r, outcome)
    /\ UNCHANGED << env, protectedContainers, ui,
                    entry, pc, action, input, reqId, inventory, allContainers,
                    targets, concurrency, cursor, workers, succeeded, failed,
                    calls, answers, response >>

\* container.start() answers
StartSettle(r) ==
    /\ entry = "services"
    /\ svc.reqs[r].pc = "start"
    /\ \E outcome \in {"started", "failed"} :
         svc' = afterStart(svc, r, outcome)
    /\ UNCHANGED << env, protectedContainers, ui,
                    entry, pc, action, input, reqId, inventory, allContainers,
                    targets, concurrency, cursor, workers, succeeded, failed,
                    calls, answers, response >>

\* the closing listAllContainers is over (it raises nothing): the DTO is
\* returned
ServiceListSettle(r) ==
    /\ entry = "services"
    /\ svc.reqs[r].pc = "list"
    /\ svc' = goto(svc, r, "returned")
    /\ UNCHANGED << env, protectedContainers, ui,
                    entry, pc, action, input, reqId, inventory, allContainers,
                    targets, concurrency, cursor, workers, succeeded, failed,
                    calls, answers, response >>

\* deployService requests, several at a time
NextDeploy ==
    \E r \in 1..MaxInFlight :
        \/ DeployService(r)
        \/ CountSettle(r)
        \/ DeploySettle(r)
        \/ ServiceListSettle(r)

\* switchProfile requests, several at a time
NextSwitch ==
    \E r \in 1..MaxInFlight :
        \/ SwitchProfile(r)
        \/ RemoveSettle(r)
        \/ CreateSettle(r)
        \/ StartSettle(r)
        \/ ServiceListSettle(r)

\* the two kinds of request are explored apart: deployService reads and
\* changes the kz- containers only and writes no configuration, switchProfile
\* the container of p and active_profile only
SpecDeploy == InitServices /\ [][NextDeploy]_vars

SpecSwitch == InitServices /\ [][NextSwitch]_vars

----------------------------------------------------------------------------
(* Vocabulary of the properties *)

\* indexes of the start/stop/restart calls issued for container id
ActionCallsFor(id) ==
    { j \in 1..Len(calls) : calls[j].op \in BulkActions /\ calls[j].id = id }

\* the ids of the start/stop/restart calls, in the order they were issued
RECURSIVE ActionIds(_)
ActionIds(cs) ==
    IF cs = <<>> THEN <<>>
    ELSE IF Head(cs).op \in BulkActions
         THEN << Head(cs).id >> \o ActionIds(Tail(cs))
         ELSE ActionIds(Tail(cs))

\* how often x occurs in a sequence
Occurrences(seq, x) == Cardinality({ i \in 1..Len(seq) : seq[i] = x })

FailedIds(ko) == [i \in 1..Len(ko) |-> ko[i].id]

TargetIds == [i \in 1..Len(targets) |-> targets[i].Id]

ListingFailed ==
    /\ Len(calls) >= 1
    /\ calls[1].op = "list"
    /\ 1 \in DOMAIN answers
    /\ ~answers[1].ok

\* C1: the returned result of a bulk action has
\* succeeded.length + failed.length = total, and every target id occurs exactly
\* once in succeeded and failed taken together (and nothing else occurs there).
C1_ResultPartitionsTargets ==
    (entry = "bulk" /\ pc = "returned") =>
        /\ Len(response.succeeded) + Len(response.failed) = response.total
        /\ \A i \in 1..Len(targets) :
              Occurrences(response.succeeded, targets[i].Id)
                + Occurrences(FailedIds(response.failed), targets[i].Id) = 1
        /\ SetOf(response.succeeded) \cup SetOf(FailedIds(response.failed))
              \subseteq SetOf(TargetIds)

C1_Witness ==
    /\ entry = "bulk"
    /\ pc = "returned"
    /\ response.total = 3
    /\ Len(response.succeeded) = 2
    /\ Len(response.failed) = 1
    /\ response.failed[1].id = targets[1].Id

\* C2: total is the number of listed containers the policy filter keeps, no
\* target has a protected lower-cased name, and no start/stop/restart is ever
\* issued for a container with a protected name, however it was selected.
C2_ProtectedNeverTargeted ==
    entry = "bulk" =>
        /\ \A i \in 1..Len(targets) :
              toLowerCase(getContainerName(targets[i])) \notin protectedContainers
        /\ \A i \in 1..Len(inventory) :
              toLowerCase(getContainerName(inventory[i])) \in protectedContainers
                 => ActionCallsFor(inventory[i].Id) = {}
        /\ pc = "returned" =>
              response.total =
                 Cardinality({ i \in 1..Len(allContainers) :
                                 /\ isSelected(allContainers[i], input)
                                 /\ toLowerCase(getContainerName(allContainers[i]))
                                       \notin protectedContainers })

\* a protected container was listed and selected by id, and others were acted on
C2_Witness ==
    /\ entry = "bulk"
    /\ pc = "returned"
    /\ response.total >= 1
    /\ ~(input.includeAll.has /\ input.includeAll.val)
    /\ \E i \in 1..Len(allContainers) :
          /\ allContainers[i].Id \in requestIds(input)
          /\ toLowerCase(getContainerName(allContainers[i])) \in protectedContainers
          /\ allContainers[i].Names.has

\* C3: never more start/stop/restart calls are outstanding than the concurrency
\* limit runWithConcurrency was given; a bulk action gives it five.
C3_AtMostKInFlight ==
    /\ InFlight <= concurrency
    /\ (entry = "bulk" /\ pc \in {"run", "returned"}) =>
          /\ concurrency = BULK_CONCURRENCY
          /\ InFlight <= 5

\* five calls outstanding while an item still waits for a worker
C3_Witness ==
    /\ pc = "run"
    /\ concurrency = BULK_CONCURRENCY
    /\ InFlight = 5
    /\ cursor < Len(targets)

\* C4: the handler is invoked for the items in cursor order, each once (the
\* calls issued are exactly the first cursor items, none twice, none skipped),
\* and when the executor has returned every item was invoked and every
\* invocation has completed.
C4_EachItemExactlyOnce ==
    (pc \in {"run", "returned"}) =>
        /\ cursor <= Len(targets)
        /\ ActionIds(calls) = SubSeq(TargetIds, 1, cursor)
        /\ \A i \in 1..Len(targets) : Cardinality(ActionCallsFor(targets[i].Id)) <= 1
        /\ pc = "returned" =>
              /\ \A i \in 1..Len(targets) :
                    /\ Cardinality(ActionCallsFor(targets[i].Id)) = 1
                    /\ ActionCallsFor(targets[i].Id) \subseteq DOMAIN answers
                    /\ Occurrences(succeeded, targets[i].Id)
                         + Occurrences(FailedIds(failed), targets[i].Id) = 1

C4_Witness ==
    /\ entry = "harness"
    /\ pc = "returned"
    /\ concurrency = 2
    /\ Len(targets) = 4
    /\ Len(failed) = 1


\* C5: when the executor has returned, every target's action was attempted
\* whatever the other targets' outcomes were: a target whose call succeeded is
\* in succeeded, one whose call failed is in failed; and a bulk action's total is
\* the number of targets the filter gave, which no outcome changes.
C5_FailureIsolated ==
    (pc = "returned" /\ entry \in {"bulk", "harness"}) =>
        /\ \A i \in 1..Len(targets) :
              \E j \in ActionCallsFor(targets[i].Id) :
                 /\ j \in DOMAIN answers
                 /\ answers[j].ok =>
                       /\ targets[i].Id \in SetOf(succeeded)
                       /\ targets[i].Id \notin SetOf(FailedIds(failed))
                 /\ ~answers[j].ok =>
                       /\ targets[i].Id \in SetOf(FailedIds(failed))
                       /\ targets[i].Id \notin SetOf(succeeded)
        /\ entry = "bulk" =>
              /\ response.succeeded = succeeded
              /\ response.failed = failed
              /\ response.total = Len(resolveBulkTargets(allContainers, input))

\* the first item of three fails under one worker, and the two after it succeed
C5_Witness ==
    /\ pc = "returned"
    /\ concurrency = 1
    /\ Len(targets) = 3
    /\ FailedIds(failed) = << targets[1].Id >>
    /\ succeeded = << targets[2].Id, targets[3].Id >>

\* C6: a bulk action never raises; until it has returned it can take a step;
\* what it returns is a result with ok true, and when every target's call failed
\* succeeded is empty and failed has total entries.
C6_BulkAlwaysReturnsResult ==
    entry = "bulk" =>
        /\ pc # "raised"
        /\ pc # "returned" => ENABLED Next
        /\ pc = "returned" =>
              /\ response.kind = "result"
              /\ response.ok = TRUE
              /\ response.total = Len(targets)
              /\ (\A j \in 1..Len(calls) :
                     calls[j].op \in BulkActions => ~answers[j].ok)
                   => /\ response.succeeded = <<>>
                      /\ Len(response.failed) = response.total

\* every one of three targets failed
C6_Witness ==
    /\ entry = "bulk"
    /\ pc = "returned"
    /\ response.total = 3
    /\ response.succeeded = <<>>
    /\ Len(response.failed) = 3

\* C7: when the listing call of a bulk action fails, nothing is raised, the
\* inventory is taken to be empty, no start/stop/restart is issued, and the
\* result is total 0 with empty succeeded and failed.
C7_ListingFailureAbsorbed ==
    (entry = "bulk" /\ ListingFailed) =>
        /\ pc \in {"run", "returned"}
        /\ allContainers = <<>>
        /\ targets = <<>>
        /\ ActionIds(calls) = <<>>
        /\ pc = "returned" =>
              response = [kind |-> "result", ok |-> TRUE, total |-> 0,
                          succeeded |-> <<>>, failed |-> <<>>]

\* the daemon held containers the request selects, and the listing failed
C7_Witness ==
    /\ entry = "bulk"
    /\ ListingFailed
    /\ pc = "returned"
    /\ Len(resolveBulkTargets(inventory, input)) >= 2

\* C8: in a single-container action every start/stop/restart call follows an
\* inspect of the same id that was answered without error; when the container
\* does not exist the caller gets Not-Found and no start/stop/restart is issued;
\* when the action succeeded the result is { id, action } of the request.
C8_InspectBeforeAction ==
    entry = "single" =>
        /\ \A j \in 1..Len(calls) :
              calls[j].op \in BulkActions =>
                 /\ calls[j].op = action
                 /\ calls[j].id = reqId
                 /\ \E k \in 1..(j - 1) :
                       /\ calls[k] = [op |-> "inspect", id |-> reqId]
                       /\ k \in DOMAIN answers
                       /\ answers[k].ok
        /\ (~Exists(reqId, inventory) /\ pc \notin {"received", "inspecting"}) =>
              /\ pc = "raised"
              /\ response.kind = "NotFoundException"
              /\ ActionIds(calls) = <<>>
        /\ pc = "returned" =>
              /\ response = [kind |-> "result", id |-> reqId, action |-> action]
              /\ ActionIds(calls) = << reqId >>
              /\ answers[Len(calls)].ok

\* an id the daemon does not hold was asked for, among containers it holds
C8_Witness ==
    /\ entry = "single"
    /\ pc = "raised"
    /\ ~Exists(reqId, inventory)
    /\ Len(inventory) >= 1
    /\ answers[1] = NoSuch
    /\ response.kind = "NotFoundException"

\* C9 as stated: when a control-socket call of a single-container action fails
\* for lack of a reachable daemon, the caller gets a gateway-style failure, and
\* Not-Found is what an id that does not exist gets, nothing else.
C9_SocketFailureIsGatewayFailure ==
    (entry = "single" /\ pc = "raised") =>
        /\ answers[Len(calls)] = Refused => response.kind = "BadGatewayException"
        /\ response.kind = "NotFoundException" => ~Exists(reqId, inventory)

\* C10 as stated: a listed container is selected iff includeAll is true, or its
\* id is one of ids as they were given, or its lower-cased name is the lower-cased
\* form of one of names.
StatedSelected(c, in) ==
    \/ in.includeAll.has /\ in.includeAll.val
    \/ c.Id \in SetOf(OrElse(in.ids, <<>>))
    \/ toLowerCase(getContainerName(c)) \in
          { toLowerCase(n) : n \in SetOf(OrElse(in.names, <<>>)) }

C10_SelectionAsStated ==
    (entry = "bulk" /\ pc \in {"run", "returned"}) =>
        \A i \in 1..Len(allContainers) :
           (allContainers[i] \in SetOf(targets)) <=>
              /\ StatedSelected(allContainers[i], input)
              /\ toLowerCase(getContainerName(allContainers[i]))
                    \notin protectedContainers

\* C10 as amended: ids and names of the request are trimmed before they are
\* compared; the id comparison is exact and case-sensitive after that, the name
\* comparison is on lower-cased names, and the container's own id and name are
\* not trimmed.
AmendedSelected(c, in) ==
    \/ in.includeAll.has /\ in.includeAll.val
    \/ \E x \in SetOf(OrElse(in.ids, <<>>)) : c.Id = trim(x)
    \/ \E n \in SetOf(OrElse(in.names, <<>>)) :
          toLowerCase(getContainerName(c)) = toLowerCase(trim(n))

C10_SelectionTrimsRequest ==
    (entry = "bulk" /\ pc \in {"run", "returned"}) =>
        \A i \in 1..Len(allContainers) :
           (allContainers[i] \in SetOf(targets)) <=>
              /\ AmendedSelected(allContainers[i], input)
              /\ toLowerCase(getContainerName(allContainers[i]))
                    \notin protectedContainers

\* a request id with surrounding blanks selected the container, a request name
\* in another case selected one, and an id in another case selected nothing
C10_Witness ==
    /\ entry = "bulk"
    /\ pc = "run"
    /\ input.ids = Some(<< <<" ","a","1"," ">> >>)
    /\ input.names = Some(<< <<" ","d","b"," ">> >>)
    /\ TargetIds = << IdB2, IdA1 >>
    /\ Len(allContainers) = 3


\* the request names no id and no name (absent or empty) and includeAll is
\* false or absent
EmptySelection(in) ==
    /\ OrElse(in.ids, <<>>) = <<>>
    /\ OrElse(in.names, <<>>) = <<>>
    /\ ~(in.includeAll.has /\ in.includeAll.val)

\* C11: a bulk action whose request selects nothing has no target whatever the
\* daemon lists: it raises nothing, issues no start/stop/restart and returns
\* total 0 with empty lists.
C11_EmptySelectionNoTargets ==
    (entry = "bulk" /\ EmptySelection(input)) =>
        /\ pc # "raised"
        /\ targets = <<>>
        /\ ActionIds(calls) = <<>>
        /\ pc = "returned" =>
              response = [kind |-> "result", ok |-> TRUE, total |-> 0,
                          succeeded |-> <<>>, failed |-> <<>>]

\* empty ids and names were given, and the daemon listed unprotected containers
C11_Witness ==
    /\ entry = "bulk"
    /\ pc = "returned"
    /\ input.ids = Some(<<>>)
    /\ input.names = Some(<<>>)
    /\ Len(allContainers) = 3
    /\ \E i \in 1..3 : ~isProtected(allContainers[i])


RECURSIVE IsSubsequence(_, _)
\* sub is seq with some of its entries left out, the others in their order
IsSubsequence(sub, seq) ==
    IF sub = <<>> THEN TRUE
    ELSE IF seq = <<>> THEN FALSE
    ELSE IF Head(sub) = Head(seq) THEN IsSubsequence(Tail(sub), Tail(seq))
    ELSE IsSubsequence(sub, Tail(seq))

\* C12: the targets are a subsequence of the listed inventory: they keep its
\* relative order and no listed container is a target twice, also when it
\* matches by id and by name or when ids or names repeat a value.
C12_TargetsSubsequenceOfInventory ==
    (entry = "bulk" /\ pc \in {"run", "returned"}) =>
        /\ IsSubsequence(targets, allContainers)
        /\ \A i \in 1..Len(allContainers) :
              Occurrences(targets, allContainers[i]) <= 1

\* b2 is named twice in ids and a1 twice in names (in two cases); each is a
\* target once, in the order the inventory lists them
C12_Witness ==
    /\ entry = "bulk"
    /\ pc = "run"
    /\ input.ids = Some(<< IdC3, IdDocker, IdB2, IdB2 >>)
    /\ input.names = Some(<< <<"d","o","c","k","e","r">>, <<"w","e","b">>,
                            <<"W","e","b">> >>)
    /\ Len(allContainers) = 3
    /\ TargetIds = << IdA1, IdB2 >>

----------------------------------------------------------------------------
(* Container statistics *)

\* a stats request has returned its DTO
StatsReturned == entry = "stats" /\ pc = "returned"

\* the snapshot the daemon answered the stats call with
Snapshot == answers[1].stats

\* C13: for every raw snapshot, missing counters counting as 0 and deltas
\* below zero included, cpuPercent is 0 when cpuDelta <= 0 or
\* systemDelta <= 0, and (cpuDelta / systemDelta) * onlineCpus * 100 otherwise
C13_CpuPercentFormula ==
    StatsReturned =>
        LET cd == cpuDelta(Snapshot)
            sd == systemDelta(Snapshot)
            p  == response.cpuPercent
        IN  IF cd <= 0 \/ sd <= 0
            THEN p = Number(0)
            ELSE /\ p.d > 0
                 /\ p.n * sd = cd * onlineCpus(Snapshot) * 100 * p.d

\* the previous CPU counter is missing and counts as 0: 1 of 3 system ticks on
\* two CPUs is 200/3 percent
C13_Witness ==
    /\ StatsReturned
    /\ Snapshot.precpu_stats.has
    /\ ~Field(Field(Snapshot.precpu_stats, "cpu_usage"), "total_usage").has
    /\ ~Field(Snapshot.precpu_stats, "system_cpu_usage").has
    /\ cpuDelta(Snapshot) = 1
    /\ systemDelta(Snapshot) = 3
    /\ onlineCpus(Snapshot) = 2
    /\ response.cpuPercent = [n |-> 200, d |-> 3]

\* C14: memPercent is (memUsageBytes / memLimitBytes) * 100 when both are
\* above 0 and 0 otherwise; a limit of 0 or a missing limit gives 0 and never
\* the outcome of a division by zero; 50_000_000 of 100_000_000 gives 50
C14_MemPercentFormula ==
    StatsReturned =>
        LET u == response.memUsageBytes
            l == response.memLimitBytes
            p == response.memPercent
        IN  /\ p.d # 0
            /\ IF u > 0 /\ l > 0
               THEN LET g == GCD(u, l)
                    IN  p.n * (l \div g) = (u \div g) * 100 * p.d
               ELSE p = Number(0)
            /\ (~Snapshot.memory_stats.has \/ ~Snapshot.memory_stats.val.limit.has)
                  => l = 0
            /\ (u = 50000000 /\ l = 100000000) => p = Number(50)

C14_Witness ==
    /\ StatsReturned
    /\ Snapshot.memory_stats = Some([usage |-> Some(50000000),
                                     limit |-> Some(100000000)])
    /\ response.memPercent = Number(50)

\* C15 as stated: cpuPercent is within 0 and 100 * onlineCpus inclusive for
\* every pair of counter samples
C15_CpuPercentWithinRange ==
    StatsReturned =>
        LET p == response.cpuPercent
        IN  /\ p.n >= 0
            /\ p.n <= 100 * onlineCpus(Snapshot) * p.d

\* C15: cpuPercent is never below 0; it is at most 100 * onlineCpus when the
\* CPU delta is not above the system delta, and above 100 * onlineCpus when
\* the CPU delta is above a system delta above 0 and a CPU is online
C15_CpuPercentWithinRangeWhenDeltaOrdered ==
    StatsReturned =>
        LET cd == cpuDelta(Snapshot)
            sd == systemDelta(Snapshot)
            k  == onlineCpus(Snapshot)
            p  == response.cpuPercent
        IN  /\ p.d > 0
            /\ p.n >= 0
            /\ cd <= sd => p.n <= 100 * k * p.d
            /\ (cd > sd /\ sd > 0 /\ k > 0) => p.n > 100 * k * p.d

\* the container used all of two CPUs: the upper end of the range
C15_Witness ==
    /\ StatsReturned
    /\ cpuDelta(Snapshot) = MaxCount
    /\ systemDelta(Snapshot) = MaxCount
    /\ onlineCpus(Snapshot) = 2
    /\ response.cpuPercent = Number(200)

\* the CPU count C16 states: the reported count, else the array's length, else 1
StatedOnlineCpus(stats) ==
    LET reported == Field(stats.cpu_stats, "online_cpus")
        perCpu == Field(Field(stats.cpu_stats, "cpu_usage"), "percpu_usage")
    IN  IF reported.has THEN reported.val
        ELSE IF perCpu.has THEN Len(perCpu.val)
        ELSE 1

\* C16: the CPU percentage is computed with the reported online-CPU count
\* when there is one, else with the length of the per-CPU array when that is
\* present, else with 1
C16_OnlineCpusPreference ==
    (StatsReturned /\ cpuDelta(Snapshot) > 0 /\ systemDelta(Snapshot) > 0) =>
        LET p == response.cpuPercent
        IN  /\ p.d > 0
            /\ p.n * systemDelta(Snapshot) =
                   cpuDelta(Snapshot) * StatedOnlineCpus(Snapshot) * 100 * p.d

\* two CPUs reported beside a per-CPU array of three entries: two are used
C16_Witness ==
    /\ StatsReturned
    /\ Snapshot.cpu_stats.has
    /\ Snapshot.cpu_stats.val.online_cpus = Some(2)
    /\ LengthOf(Field(Field(Snapshot.cpu_stats, "cpu_usage"),
                      "percpu_usage")) = Some(3)
    /\ cpuDelta(Snapshot) = 1
    /\ systemDelta(Snapshot) = 1
    /\ response.cpuPercent = Number(200)

----------------------------------------------------------------------------
(* Host statistics *)

HostReturned == entry = "host" /\ pc = "returned"

\* idle and total of the second sample minus those of the first
IdleDelta == sumCpuTimes(answers[2].cpus).idle - sumCpuTimes(answers[1].cpus).idle

TotalDelta ==
    sumCpuTimes(answers[2].cpus).total - sumCpuTimes(answers[1].cpus).total

\* C17: the host CPU percentage is 0 whenever totalDelta <= 0; otherwise it is
\* a number of tenths, the one nearest to 100 - (idleDelta / totalDelta) * 100
C17_HostCpuPercentRounded ==
    HostReturned =>
        LET v == response.value
        IN  IF TotalDelta <= 0
            THEN v = Number(0)
            ELSE /\ v.d > 0
                 /\ 10 % v.d = 0
                 /\ LET tenths == v.n * (10 \div v.d)
                    IN  2 * Abs(tenths * TotalDelta
                                - 1000 * (TotalDelta - IdleDelta))
                            <= TotalDelta

\* one idle tick of three: 66.666... is returned as 66.7
C17_Witness ==
    /\ HostReturned
    /\ TotalDelta = 3
    /\ IdleDelta = 1
    /\ response.value = [n |-> 667, d |-> 10]

----------------------------------------------------------------------------
(* Failure records *)

\* the name C18 states: the first raw name less one leading "/", or the id
StatedName(c) ==
    IF c.Names.has /\ Len(c.Names.val) > 0
    THEN LET first == c.Names.val[1]
         IN  IF Len(first) > 0 /\ first[1] = "/" THEN Tail(first) ELSE first
    ELSE c.Id

\* the runtime calls that were answered with an error
FailedCalls ==
    { j \in DOMAIN answers : calls[j].op \in BulkActions /\ ~answers[j].ok }

\* the web-i call was answered, and answered as o
WebAnswered(i, o) ==
    \E j \in DOMAIN answers : calls[j].id = WebId(i) /\ answers[j] = o

\* the scenario: stop of everything, web-3 fails and the other three succeed
ScenarioRun ==
    /\ entry = "bulk"
    /\ pc = "returned"
    /\ inventory = ScenarioInventory
    /\ action = "stop"
    /\ input.includeAll = Some(TRUE)
    /\ WebAnswered(3, ConnectionRefused)
    /\ \A i \in {1, 2, 4} : WebAnswered(i, Ok)

\* C18: for every target whose runtime call raised an error with message m,
\* failed holds one record of that target's id, whose name is the target's
\* derived name and whose error is m, and the returned result carries it; in
\* the scenario total is 4, succeeded is web-1, web-2 and web-4 in some order
\* and failed is exactly the record of web-3
C18_FailedRecordsNameTheError ==
    /\ entry = "bulk" =>
          \A j \in FailedCalls :
            \E t \in 1..Len(targets) :
              /\ targets[t].Id = calls[j].id
              /\ Occurrences(FailedIds(failed), calls[j].id) = 1
              /\ \E f \in 1..Len(failed) :
                    failed[f] = [id |-> targets[t].Id,
                                 name |-> StatedName(targets[t]),
                                 error |-> answers[j].message]
              /\ pc = "returned" => response.failed = failed
    /\ ScenarioRun =>
          /\ response.total = 4
          /\ Len(response.succeeded) = 3
          /\ SetOf(response.succeeded) = { WebId(1), WebId(2), WebId(4) }
          /\ response.failed = << [id |-> WebId(3),
                                   name |-> << "w", "e", "b", "-", "3" >>,
                                   error |-> "connection refused"] >>

\* the scenario, with web-4 the first to succeed
C18_Witness ==
    /\ ScenarioRun
    /\ response.succeeded = << WebId(4), WebId(1), WebId(2) >>
    /\ Len(response.failed) = 1

----------------------------------------------------------------------------
(* The protected-name set *)

\* the entries of a comma-separated list: its longest pieces free of commas
\* (the empty ones left out)
StatedEntries(s) ==
    { SubSeq(s, p[1], p[2]) :
        p \in { q \in (1..Len(s)) \X (1..Len(s)) :
                  /\ q[1] <= q[2]
                  /\ q[1] = 1 \/ s[q[1] - 1] = ","
                  /\ q[2] = Len(s) \/ s[q[2] + 1] = ","
                  /\ \A k \in q[1]..q[2] : s[k] # "," } }

\* the set C19 states for the value the variable had at process start
StatedProtected ==
    LET names == IF env.has
                 THEN { toLowerCase(trim(e)) : e \in StatedEntries(env.val) }
                          \ { <<>> }
                 ELSE {}
    IN  IF names = {} THEN SetOf(DEFAULT_PROTECTED_CONTAINERS) ELSE names

\* C19: the protected-name set is the comma-separated environment list with
\* each entry trimmed and lower-cased and the empty entries dropped, or the
\* default set when the list is absent or yields no entry; no step of a bulk
\* or single action changes it
C19_ProtectedSetFixedFromEnv ==
    [][/\ protectedContainers = StatedProtected
       /\ protectedContainers' = protectedContainers]_vars

\* started with " Web ,,DB": web and Db are protected and Docker no longer is,
\* so stop of everything stops c3 alone
C19_Witness ==
    /\ env = Some(<< " ", "W", "e", "b", " ", ",", ",", "D", "B" >>)
    /\ protectedContainers = { << "w", "e", "b" >>, << "d", "b" >> }
    /\ entry = "bulk"
    /\ pc = "returned"
    /\ input.includeAll = Some(TRUE)
    /\ Len(allContainers) = 3
    /\ TargetIds = << IdC3 >>
    /\ response.succeeded = << IdC3 >>

----------------------------------------------------------------------------
(* Runtime calls that never return *)

\* C20 as stated: every runtime call of a bulk target is bounded by a timeout
\* that turns it into the target's failure entry, so also with a call that
\* never returns the bulk action, until it has returned its result, can take
\* a step
C20_HungCallCannotStallBatch ==
    (/\ entry = "bulk"
     /\ pc # "returned"
     /\ Cardinality({ w \in DOMAIN workers : workers[w].st = "hung" }) <= 1) =>
        /\ pc # "raised"
        /\ ENABLED NextHang

----------------------------------------------------------------------------
(* Limits below 1 *)

----------------------------------------------------------------------------
(* Proxy routes *)

ProxyRequest == entry \in {"proxyBulk", "proxyCluster"}

\* C22: the bulk and cluster proxy routes answer an action other than start,
\* stop or restart with status 400 and send nothing to the backend; for an
\* allowed action they send one request, for that action, and what they
\* return when the backend has answered is the backend's status and body
C22_ProxyForwardsAllowedActionsOnly ==
    ProxyRequest =>
        IF action \notin {"start", "stop", "restart"}
        THEN /\ calls = <<>>
             /\ pc \in {"received", "returned"}
             /\ pc = "returned" => response.status = 400
        ELSE /\ Len(calls) <= 1
             /\ pc # "received" =>
                   /\ Len(calls) = 1
                   /\ calls[1].method = "POST"
                   /\ calls[1].path[Len(calls[1].path)] = action
                   /\ calls[1].path[1] =
                          IF entry = "proxyBulk" THEN "containers"
                          ELSE "clusters"
             /\ (pc = "returned" /\ answers[1].ok /\ answers[1].body.has) =>
                   /\ response.status = answers[1].status
                   /\ response.body = answers[1].body.val

\* the backend's 404 to a bulk restart is handed back as it came
C22_Witness ==
    /\ entry = "proxyBulk"
    /\ action = "restart"
    /\ pc = "returned"
    /\ Len(calls) = 1
    /\ calls[1].body = Some(input)
    /\ answers[1].ok
    /\ answers[1].status = 404
    /\ response.status = 404
    /\ response.body = "{\"ok\":true}"

\* a pending marker of the dashboard is set
ActionPending ==
    /\ ui.kind = "dashboard"
    /\ ui.pendingKey # None \/ ui.pendingBulkAction # None

\* C23 as stated: while a pending marker is set, nothing that the interval
\* triggered starts a refresh of the containers, of the host stats or of the
\* container stats.
C23_NoRefreshStartsWhilePending ==
    [][ActionPending =>
          /\ ui'.polls = ui.polls
          /\ ui'.stats <= ui.stats]_vars

\* C23: while a pending marker is set no interval is registered and the
\* interval does not fire, so no refreshAll is begun; a refreshAll that the
\* interval began before the marker was set goes on to its later requests.
C23_IntervalPausedWhilePending ==
    [][ActionPending =>
          /\ ui.intervalId = None
          /\ ui'.polls = ui.polls]_vars

C23_Witness ==
    /\ ui.kind = "dashboard"
    /\ ui.pendingBulkAction = Some("restart")
    /\ ui.run = [kind |-> "bulk", at |-> "refresh"]
    /\ ui.polls = 1
    /\ ui.stats = 1
    /\ ui.intervalId = None

\* the ways the request of a dashboard action fails
FailedOutcomes == {Some("notOk"), Some("threw"), Some("noLists")}

\* C29: a marker is set exactly while its action is under way; an action
\* under way can always take its next step; one whose request failed has left
\* and cleared its marker; and once the marker is cleared the buttons and the
\* interval come back with the next render.
C29_PendingMarkerAlwaysCleared ==
    ui.kind = "dashboard" =>
        /\ ActionPending <=> ui.run # NoRun
        /\ ui.run.kind = "single" <=> ui.pendingKey # None
        /\ ui.run # NoRun =>
              ENABLED (ActionFetchSettle \/ ActionJsonSettle
                          \/ ActionRefreshSettle)
        /\ ui.outcome \in FailedOutcomes => ~ActionPending
        /\ (ui.isBusy \/ ui.intervalId = None) /\ ~ActionPending =>
              ENABLED Render
        /\ ~ui.stale /\ ~ActionPending =>
              ~ui.isBusy /\ ui.intervalId # None

C29_Witness ==
    /\ ui.kind = "dashboard"
    /\ ui.outcome = Some("threw")
    /\ ui.errorMessage # None
    /\ ui.clicks = MaxClicks
    /\ ~ActionPending
    /\ ~ui.isBusy
    /\ ui.intervalId # None

\* the single-container request names a listed container with a protected name
ProtectedSingle ==
    /\ entry = "single"
    /\ \E i \in 1..Len(inventory) :
         inventory[i].Id = reqId /\ isProtected(inventory[i])

\* C26: a single-container action on a container with a protected name is
\* carried out like any other: once inspect finds the container, the action is
\* issued to the runtime for that id, its success is returned as
\* { id, action }, and an error is raised only when the runtime failed a call.
C26_SingleActionIgnoresProtection ==
    ProtectedSingle =>
        /\ (pc \in {"acting", "returned", "raised"} /\ answers[1].ok) =>
              calls = << [op |-> "inspect", id |-> reqId],
                         [op |-> action, id |-> reqId] >>
        /\ pc = "inspecting" => ENABLED InspectSettle
        /\ pc = "acting" => ENABLED ActionSettle
        /\ pc = "returned" =>
              /\ answers[2].ok
              /\ response = [kind |-> "result", id |-> reqId,
                             action |-> action]
        /\ pc = "raised" => ~answers[Len(calls)].ok

C26_Witness ==
    /\ ProtectedSingle
    /\ reqId = IdC3
    /\ action = "stop"
    /\ pc = "returned"
    /\ calls[2] = [op |-> "stop", id |-> IdC3]
    /\ response.id = IdC3

\* the runtime calls of a bulk action that are answered in this step
JustAnswered ==
    { j \in DOMAIN answers' \ DOMAIN answers : calls[j].op \in BulkActions }

\* C25: when the action of a target completes, its id goes to the end of
\* succeeded if it completed successfully and to the end of failed if it
\* failed, after the ids of all targets whose actions completed before with
\* that outcome; nothing else changes the two lists, and the result returns
\* them as they are.
C25_ListsInCompletionOrder ==
    [][entry = "bulk" /\ pc = "run" =>
          /\ \A j \in JustAnswered :
                IF answers'[j].ok
                THEN /\ succeeded' = Append(succeeded, calls[j].id)
                     /\ failed' = failed
                ELSE /\ succeeded' = succeeded
                     /\ Len(failed') = Len(failed) + 1
                     /\ SubSeq(failed', 1, Len(failed)) = failed
                     /\ failed'[Len(failed')].id = calls[j].id
          /\ JustAnswered = {} =>
                succeeded' = succeeded /\ failed' = failed
          /\ pc' = "returned" =>
                /\ response'.succeeded = succeeded
                /\ response'.failed = failed]_vars

\* web-2 was stopped first, then web-4, then web-1: the list is in that order,
\* not in the order of the inventory
C25_Witness ==
    /\ ScenarioRun
    /\ response.succeeded = << WebId(2), WebId(4), WebId(1) >>
    /\ FailedIds(response.failed) = << WebId(3) >>

----------------------------------------------------------------------------
(* A handler that never completes *)

HungWorkers == { w \in DOMAIN workers : workers[w].st = "hung" }

\* the ids of the items whose handler has completed
CompletedIds == SetOf(succeeded) \cup SetOf(FailedIds(failed))

\* C24: the executor is called with a limit of 2 or more and the handler of
\* exactly one item never completes.  The executor does not return; and
\* whenever the run can take no further step, every other item was picked up
\* and its handler has completed.
C24_OthersCompleteDespiteHungHandler ==
    (/\ entry = "harness"
     /\ concurrency >= 2
     /\ Len(targets) >= 2
     /\ Cardinality(HungWorkers) = 1) =>
        /\ pc = "run"
        /\ ~ENABLED NextHarness =>
              /\ cursor = Len(targets)
              /\ \A w \in HungWorkers :
                    CompletedIds = SetOf(TargetIds) \ {workers[w].item[1].Id}

\* two workers and four items: the first worker hangs on the first item and
\* the second worker has completed the other three
C24_Witness ==
    /\ entry = "harness"
    /\ concurrency = 2
    /\ Len(targets) = 4
    /\ pc = "run"
    /\ workers[1].st = "hung"
    /\ workers[1].item[1] = targets[1]
    /\ workers[2].st = "done"
    /\ Len(succeeded) + Len(failed) = 3
    /\ ~ENABLED NextHarness

----------------------------------------------------------------------------
(* Services *)

\* the deploy-mode services that run
RunningDeployServices ==
    { name \in DOMAIN DeployModes :
        /\ deployedContainer(name) \in DOMAIN svc.containers
        /\ svc.containers[deployedContainer(name)].running }

\* C27 as stated: the number of running deploy-mode services never exceeds
\* max_concurrent (3 when it is not set), also with several deployService
\* requests under way, as long as every count was taken from a list the
\* daemon did give
C27_RunningDeployServicesBounded ==
    (svc.kind = "services" /\ ~svc.blind) =>
        Cardinality(RunningDeployServices) <= maxConcurrent(svc)

\* the switchProfile request of slot r names no service with that profile
UnknownSwitch(q) ==
    /\ q.op = "switch"
    /\ q.name # ProfileService \/ q.profile \notin DOMAIN Profiles

\* C28: active_profile changes only in the step in which a switchProfile
\* request gets the answer of container.start(), to the profile of that
\* request, with the container running on that profile's image; a request
\* that raised (unknown service, unknown profile, failed recreation) has
\* written nothing; one for an unknown service or profile raises without a
\* container operation; and one for the active profile does no container
\* operation and writes nothing.
C28_ProfileWrittenAfterRecreation ==
    [][svc.kind = "services" =>
          /\ svc'.active_profile # svc.active_profile =>
                \E r \in 1..MaxInFlight :
                    /\ svc.reqs[r].op = "switch"
                    /\ svc.reqs[r].pc = "start"
                    /\ svc'.reqs[r].pc = "list"
                    /\ svc'.active_profile = svc.reqs[r].profile
                    /\ ProfileContainer \in DOMAIN svc'.containers
                    /\ svc'.containers[ProfileContainer] =
                          [running |-> TRUE,
                           image |-> Profiles[svc.reqs[r].profile],
                           by |-> r]
          /\ \A r \in 1..MaxInFlight :
                LET q == svc'.reqs[r]
                IN  /\ (q.op = "switch" /\ q.pc = "raised") => ~q.wrote
                    /\ UnknownSwitch(q) =>
                          /\ q.pc = "raised"
                          /\ q.ops = 0
                          /\ q.error =
                                Some(IF q.name \in ServiceNames
                                     THEN "BadRequestException"
                                     ELSE "NotFoundException")
                    /\ q.same =>
                          /\ q.pc \in {"list", "returned"}
                          /\ q.ops = 0
                          /\ ~q.wrote]_vars

\* p was switched to hard and back to easy, each time by a request that
\* recreated the container, and a later request for hard failed to create it
C28_Witness ==
    /\ svc.kind = "services"
    /\ svc.active_profile = "easy"
    /\ svc.reqs[1].pc = "returned"
    /\ svc.reqs[1].wrote
    /\ svc.reqs[1].profile = "easy"
    /\ svc.reqs[2].profile = "hard"
    /\ svc.reqs[2].pc = "raised"
    /\ svc.reqs[2].ops = 1
    /\ ProfileContainer \notin DOMAIN svc.containers

====
